---------------------------- MODULE Spec2Model ----------------------------
(***************************************************************************)
(* A model of extracontext's PyContextLocal (src/extracontext/             *)
(* contextlocal.py): a namespace whose attributes are resolved by walking  *)
(* the chain of execution frames (f_back) and looking, in every frame that *)
(* the namespace's registry knows, at the binding layers ("$contexts")     *)
(* that frame holds.                                                       *)
(*                                                                         *)
(* Frames are heap objects with an identity; a frame that finishes is      *)
(* reclaimed and its registry entry disappears with it (the registry is a  *)
(* WeakKeyDictionary keyed by an id object that only the frame holds).     *)
(* Attribute operations are atomic steps: each touches the registry with   *)
(* single dictionary operations on the keys of its own thread's frames.    *)
(***************************************************************************)
EXTENDS Integers, Sequences, FiniteSets, TLC

\* ------------------------------------------------------------------ bounds
\* Frames one thread has on its stack at the same time.
MaxDepth == 3
\* Length a frame's "$contexts" list may reach (entries are never removed).
MaxCtxs == 2
\* Layers two namespaces together put on one frame.
MaxCtxsBoth == 4
\* Binding layers nested along one chain of frames.
MaxLayers == 3
\* Distinct user values.
MaxVal == 2
\* Threads; thread 1 is the main thread.
MaxThreads == 2
\* Asynchronous tasks one event loop runs.
MaxTasks == 2
\* Generators alive at the same time.
MaxGens == 1
\* Resumption steps one generator is given.
MaxSteps == 2
\* Yields in the body of the generator given to the native wrapper.
MaxPts == 3
\* Work items waiting in the executor's queue.
MaxQueue == 2

Names == {"a", "b"}
Values == 1..MaxVal
Threads == 1..MaxThreads
TaskIds == 1..MaxTasks
GenIds == 1..MaxGens
FrameIds == 1..(MaxDepth * MaxThreads + MaxTasks + MaxGens)

\* The marker a deleted attribute is overwritten with.
_sentinel == 0
\* What reading an attribute yields when __getattr__ raises AttributeError.
NotBound == -1
\* first_ns before any registered frame was met (None in the source).
NoneNs == -1
\* _introspect_registry called without a name.
NoName == "None"

VARIABLES
    frames,     \* live frames: id -> [back, kind, ctxs, open]
    registry,   \* PyContextLocal._registry: frame id -> list of indices into ctxs
    cur,        \* thread -> the frame it is executing (0: none)
    tstate,     \* thread -> "new" | "run" | "done"
    loop,       \* the event loop of thread 1: [on, runner, running]
    tasks,      \* task -> [state, frame, did, snap]
    gens,       \* generator -> [state, frame, scoped, steps, dview]
    native,     \* the generator wrapped by NativeContextLocal._generator_wrapper
    nat,        \* a NativeContextLocal: [ctx: thread -> contexts entered, stack: _et_stack, reg: names of _et_registry]
    ex,         \* ContextPreservingExecutor: [tctx, queue, worker, wctx]
    classes,    \* the package's classes: [defined, local, map, made]
    cvars,      \* a NativeContextLocal step by step: [reg, val, pc, loc]
    other,      \* a second PyContextLocal: [reg: its _registry, open: frame -> with blocks open]
    scopes      \* history: frame -> the scopes opened on it and still open

vars == <<frames, registry, cur, tstate, loop, tasks, gens, native, nat, ex, classes, cvars, other, scopes>>

\* --------------------------------------------------------------- the heap
EmptyDict == [k \in {} |-> 0]

DictSet(d, k, v) == [x \in DOMAIN d \cup {k} |-> IF x = k THEN v ELSE d[x]]
DictDel(d, k) == [x \in DOMAIN d \ {k} |-> d[x]]

\* A fresh binding layer: the {} appended by _register_context.  "deleted"
\* is the set the layer keeps under its key "$deleted".
EmptyNs == [isNone |-> FALSE, vals |-> EmptyDict, deleted |-> {}]
\* An entry of "$contexts" overwritten with None by _pop_context.
NoneCtx == [isNone |-> TRUE, vals |-> EmptyDict, deleted |-> {}]

\* A frame as it starts: called from frame `back`, no "$contexts" yet.  kind
\* is the code it runs: "user" code, the decorator's "wrapper", or "_run".
NewFrame(back, kind) == [back |-> back, kind |-> kind, ctxs |-> <<>>, open |-> 0]

Heap == [fr |-> frames, reg |-> registry]

\* The layer stored at (0-based) index idx of frame f's "$contexts".
Layer(h, f, idx) == h.fr[f].ctxs[idx + 1]

NotFound(count, first) ==
    [found |-> FALSE, frame |-> 0, idx |-> 0, first |-> first, count |-> count]

\* A plausible slip: the layers of one frame scanned oldest first.
RECURSIVE ScanLayers_Forward(_, _, _, _, _, _)
ScanLayers_Forward(h, f, pos, name, count, first) ==
    LET i == Len(h.reg[f]) - pos + 1
    IN IF pos = 0 THEN NotFound(count, first)
       ELSE LET idx == h.reg[f][i]
                ns == Layer(h, f, idx)
            IN IF name = NoName \/ name \in DOMAIN ns.vals
               THEN [found |-> TRUE, frame |-> f, idx |-> idx,
                     first |-> first, count |-> count]
               ELSE ScanLayers_Forward(h, f, pos - 1, name, count + 1, first)

\* for namespace_index in reversed(self._registry[hf]): ...
\* pos runs from the end of the frame's registry entry down to 1.
RECURSIVE ScanLayers(_, _, _, _, _, _)
ScanLayers(h, f, pos, name, count, first) ==
    IF pos = 0 THEN NotFound(count, first)
    ELSE LET idx == h.reg[f][pos]
             ns == Layer(h, f, idx)
         IN IF name = NoName \/ name \in DOMAIN ns.vals
            THEN [found |-> TRUE, frame |-> f, idx |-> idx,
                  first |-> first, count |-> count]
            ELSE ScanLayers(h, f, pos - 1, name, count + 1, first)

\* A plausible slip: the search ends with the first frame that has layers,
\* instead of going on to the frames that called it.
RECURSIVE Walk_StopAtFirstFrame(_, _, _, _, _)
Walk_StopAtFirstFrame(h, f, name, count, first) ==
    IF f = 0 THEN NotFound(count, first)
    ELSE IF f \in DOMAIN h.reg /\ Len(h.reg[f]) > 0
         THEN LET first1 == IF first = NoneNs THEN count ELSE first
              IN ScanLayers(h, f, Len(h.reg[f]), name, count, first1)
         ELSE Walk_StopAtFirstFrame(h, h.fr[f].back, name, count, first)

\* while f: ... f = f.f_back
RECURSIVE Walk(_, _, _, _, _)
Walk(h, f, name, count, first) ==
    IF f = 0 THEN NotFound(count, first)
    ELSE IF f \in DOMAIN h.reg
         THEN LET first1 == IF first = NoneNs THEN count ELSE first
                  r == ScanLayers(h, f, Len(h.reg[f]), name, count, first1)
              IN IF r.found THEN r
                 ELSE Walk(h, h.fr[f].back, name, r.count, first1)
         ELSE Walk(h, h.fr[f].back, name, count, first)

\* A plausible slip: a search that, at the end of the caller's own chain of
\* frames, goes on into the main thread's first frame.
IntrospectRegistry_IntoMain(h, f, name) ==
    LET r == Walk(h, f, name, 0, NoneNs)
    IN IF r.found \/ 1 \notin DOMAIN h.fr THEN r
       ELSE Walk(h, 1, name, r.count, r.first)

\* _introspect_registry(name) as seen from user frame f: .found is FALSE where
\* the source raises ContextError.
IntrospectRegistry(h, f, name) == Walk(h, f, name, 0, NoneNs)

\* A plausible slip: the position in "$contexts" is taken from the length of
\* the namespace's own registry entry, as if no other namespace used the list.
RegisterContext_CountOwn(h, f) ==
    LET ctxs1 == Append(h.fr[f].ctxs, EmptyNs)
        old == IF f \in DOMAIN h.reg THEN h.reg[f] ELSE <<>>
    IN [fr |-> [h.fr EXCEPT ![f].ctxs = ctxs1],
        reg |-> DictSet(h.reg, f, Append(old, Len(old)))]

\* _register_context(f)
RegisterContext(h, f) ==
    LET ctxs1 == Append(h.fr[f].ctxs, EmptyNs)
        old == IF f \in DOMAIN h.reg THEN h.reg[f] ELSE <<>>
    IN [fr |-> [h.fr EXCEPT ![f].ctxs = ctxs1],
        reg |-> DictSet(h.reg, f, Append(old, Len(ctxs1) - 1))]

\* _pop_context(f) succeeds only on a frame with a non-empty registry entry
\* (KeyError / IndexError otherwise).
CanPop(h, f) == f \in DOMAIN h.reg /\ Len(h.reg[f]) > 0

\* A plausible slip: the oldest registered layer is the one removed.
PopContext_Oldest(h, f) ==
    LET lst == h.reg[f]
        idx == lst[1]
    IN [fr |-> [h.fr EXCEPT ![f].ctxs[idx + 1] = NoneCtx],
        reg |-> [h.reg EXCEPT ![f] = Tail(lst)]]

\* _pop_context(f)
PopContext(h, f) ==
    LET lst == h.reg[f]
        idx == lst[Len(lst)]
    IN [fr |-> [h.fr EXCEPT ![f].ctxs[idx + 1] = NoneCtx],
        reg |-> [h.reg EXCEPT ![f] = SubSeq(lst, 1, Len(lst) - 1)]]

\* A plausible slip: a registry that holds its keys strongly.
Reclaim_StrongKeys(h, f) ==
    [fr |-> DictDel(h.fr, f), reg |-> h.reg]

\* A frame that finished: it is reclaimed, and the weak registry forgets it.
Reclaim(h, f) ==
    [fr |-> DictDel(h.fr, f), reg |-> DictDel(h.reg, f)]

\* A plausible slip: setdefault in place of the assignment.
WriteNs_SetDefault(h, f, idx, name, value) ==
    IF name \in DOMAIN Layer(h, f, idx).vals THEN h
    ELSE [h EXCEPT !.fr[f].ctxs[idx + 1].vals = DictSet(@, name, value)]

\* namespace[name] = value on the layer (f, idx)
WriteNs(h, f, idx, name, value) ==
    [h EXCEPT !.fr[f].ctxs[idx + 1].vals = DictSet(@, name, value)]

\* namespace.setdefault("$deleted", set()).add(name) on the layer (f, idx)
FlagDeleted(h, f, idx, name) ==
    [h EXCEPT !.fr[f].ctxs[idx + 1].deleted = @ \cup {name}]

\* ------------------------------------------------- attribute operations
\* A plausible slip: a tombstone is skipped and the search goes on outwards
\* (the "one_level" stacking the source mentions and disabled).
RECURSIVE FirstValue(_, _, _)
FirstValue(h, f, name) ==
    IF f = 0 THEN NotBound
    ELSE LET lst == IF f \in DOMAIN h.reg THEN h.reg[f] ELSE <<>>
             hits == {i \in 1..Len(lst) :
                        /\ name \in DOMAIN Layer(h, f, lst[i]).vals
                        /\ Layer(h, f, lst[i]).vals[name] # _sentinel}
         IN IF hits = {} THEN FirstValue(h, h.fr[f].back, name)
            ELSE Layer(h, f, lst[CHOOSE i \in hits : \A j \in hits : j <= i]).vals[name]
GetAttr_SkipTombstone(h, f, name) == FirstValue(h, f, name)

\* __getattr__(name) called from frame f.
GetAttr(h, f, name) ==
    LET r == IntrospectRegistry(h, f, name)
    IN IF ~r.found THEN NotBound
       ELSE LET result == Layer(h, r.frame, r.idx).vals[name]
            IN IF result = _sentinel THEN NotBound ELSE result

\* A plausible slip: the assignment goes to the layer that already holds the
\* name, wherever it is.
SetAttr_WhereFound(h, f, name, value) ==
    LET r == IntrospectRegistry(h, f, name)
        n == IntrospectRegistry(h, f, NoName)
    IN IF r.found THEN WriteNs(h, r.frame, r.idx, name, value)
       ELSE IF n.found THEN WriteNs(h, n.frame, n.idx, name, value)
       ELSE LET h1 == RegisterContext(h, f)
                r1 == IntrospectRegistry(h1, f, NoName)
            IN WriteNs(h1, r1.frame, r1.idx, name, value)

\* __setattr__(name, value) called from frame f: the heap afterwards.
SetAttr(h, f, name, value) ==
    LET r == IntrospectRegistry(h, f, NoName)
    IN IF r.found THEN WriteNs(h, r.frame, r.idx, name, value)
       ELSE LET h1 == RegisterContext(h, f)
                r1 == IntrospectRegistry(h1, f, NoName)
            IN WriteNs(h1, r1.frame, r1.idx, name, value)

\* A plausible slip: a tombstone in the nearest layer is deleted again without
\* complaint.
DelAttrRaises_OnlyMissing(h, f, name) ==
    ~IntrospectRegistry(h, f, name).found

\* Whether __delattr__(name) called from frame f raises AttributeError.
DelAttrRaises(h, f, name) ==
    LET r == IntrospectRegistry(h, f, name)
    IN \/ ~r.found
       \/ /\ r.first = r.count
          /\ Layer(h, r.frame, r.idx).vals[name] = _sentinel

\* A plausible slip: the commented-out `del namespace[name]`, which exposes
\* the outer value again.
DelAttr_Erase(h, f, name) ==
    LET r == IntrospectRegistry(h, f, name)
    IN IF r.first = r.count
       THEN [h EXCEPT !.fr[r.frame].ctxs[r.idx + 1].vals = DictDel(@, name)]
       ELSE FlagDeleted(SetAttr(h, f, name, _sentinel), r.frame, r.idx, name)

\* A plausible slip: the tombstone is written where the name was found.
DelAttr_AtFound(h, f, name) ==
    LET r == IntrospectRegistry(h, f, name)
    IN FlagDeleted(WriteNs(h, r.frame, r.idx, name, _sentinel), r.frame, r.idx, name)

\* __delattr__(name) called from frame f, where it does not raise: the heap
\* afterwards.  The inner setattr(self, name, _sentinel) runs in the frame of
\* __delattr__, which has no registry entry, so its walk is the walk from f.
DelAttr(h, f, name) ==
    LET r == IntrospectRegistry(h, f, name)
    IN IF r.first = r.count
       THEN IF name \in Layer(h, r.frame, r.idx).deleted
            THEN SetAttr(h, f, name, _sentinel)
            ELSE SetAttr(FlagDeleted(h, r.frame, r.idx, name), f, name, _sentinel)
       ELSE FlagDeleted(SetAttr(h, f, name, _sentinel), r.frame, r.idx, name)

\* The wrapper's finally clause for a result that is no generator or
\* coroutine: `if f_id in self._registry: del self._registry[f_id]`.
WrapperFinally(h, w) ==
    [h EXCEPT !.reg = DictDel(@, w)]

\* ------------------------------------------------------ history of scopes
\* What a frame reads for every name.
Visible(h, f) == [k \in Names |-> GetAttr(h, f, k)]
Unbound == [k \in Names |-> NotBound]

\* A scope as the program text shows it: what its opener read on entry, what
\* the scope itself assigned or deleted since, and whether it is the layer an
\* assignment outside of every scope made for itself.
NewScope(view, implicit) ==
    [view |-> view, mine |-> EmptyDict, dels |-> {}, implicit |-> implicit]

ScopesOf(f) == IF f \in DOMAIN scopes THEN scopes[f] ELSE <<>>

\* The nearest frame, from f outwards, with an open scope (0: none).
RECURSIVE ScopeFrame(_)
ScopeFrame(f) ==
    IF f = 0 \/ f \notin DOMAIN frames THEN 0
    ELSE IF ScopesOf(f) # <<>> THEN f
    ELSE ScopeFrame(frames[f].back)

InScope(f) == ScopeFrame(f) # 0
CurScope(f) == LET g == ScopeFrame(f) IN scopes[g][Len(scopes[g])]

PushScope(s, f, scope) == DictSet(s, f, Append(IF f \in DOMAIN s THEN s[f] ELSE <<>>, scope))
PopScope(s, f) ==
    IF f \notin DOMAIN s THEN s
    ELSE IF Len(s[f]) <= 1 THEN DictDel(s, f)
    ELSE [s EXCEPT ![f] = SubSeq(@, 1, Len(@) - 1)]

\* The scope around frame f records that it gave `name` the value v
\* (NotBound: that it deleted the name).
Touch(f, name, v) ==
    LET g == ScopeFrame(f)
        top == CurScope(f)
        upd == [top EXCEPT !.mine = DictSet(@, name, v),
                           !.dels = IF v = NotBound THEN @ \cup {name} ELSE @]
    IN IF g = 0
       THEN IF v = NotBound THEN scopes
            ELSE PushScope(scopes, f, [NewScope(Unbound, TRUE) EXCEPT !.mine = DictSet(@, name, v)])
       ELSE [scopes EXCEPT ![g][Len(scopes[g])] = upd]

\* ------------------------------------------------------------ the program
\* A generator that was not created yet (or is gone): dview is what its driver
\* read when it gave the generator its current step.
NoGen == [state |-> "none", frame |-> 0, scoped |-> FALSE, steps |-> 0, dview |-> Unbound]

\* ------------------------------------------------- classes and backends
\* Constructions recorded.
MaxMade == 2

ClassNames ==
    {"ContextLocal", "PyContextLocal", "NativeContextLocal",
     "ContextMap", "PyContextMap", "NativeContextMap"}

\* backend= as given to a constructor; "None" stands for no backend given.
Backends == {"None", "python", "native", "jit"}

\* The method resolution order of each class, classes of the package only.
Mro ==
    [c \in ClassNames |->
        CASE c = "ContextLocal" -> <<"ContextLocal">>
          [] c = "PyContextLocal" -> <<"PyContextLocal", "ContextLocal">>
          [] c = "NativeContextLocal" -> <<"NativeContextLocal", "ContextLocal">>
          [] c = "ContextMap" -> <<"ContextMap", "ContextLocal">>
          [] c = "PyContextMap" ->
                <<"PyContextMap", "ContextMap", "PyContextLocal", "ContextLocal">>
          [] c = "NativeContextMap" ->
                <<"NativeContextMap", "ContextMap", "NativeContextLocal", "ContextLocal">>]

\* _backend_key as written in the body of the class ("None": not written).
OwnKey(c) ==
    CASE c \in {"PyContextLocal", "PyContextMap"} -> "python"
      [] c \in {"NativeContextLocal", "NativeContextMap"} -> "native"
      [] OTHER -> "None"

\* A plausible slip: ContextMap without a _backend_registry of its own.
OwnsTable_OnlyBase(c) == c = "ContextLocal"

\* The body of the class assigns _backend_registry.
OwnsTable(c) == c \in {"ContextLocal", "ContextMap"}

\* The first class along the resolution order of c that satisfies P.
FirstAlong(seq, P(_)) ==
    IF \E i \in 1..Len(seq) : P(seq[i])
    THEN seq[CHOOSE i \in 1..Len(seq) : P(seq[i]) /\ \A j \in 1..(i - 1) : ~P(seq[j])]
    ELSE "None"

HasKey(c) == OwnKey(c) # "None"

\* cls._backend_registry: the class whose table the attribute lookup finds.
TableHolder(c) == FirstAlong(Mro[c], OwnsTable)

\* getattr(cls, "_backend_key", "None")
BackendKey(c) ==
    LET k == FirstAlong(Mro[c], HasKey)
    IN IF k = "None" THEN "None" ELSE OwnKey(k)

\* Before the package is imported: no class, both tables empty.
NoClasses ==
    [defined |-> <<>>,
     tables |-> [h \in {"ContextLocal", "ContextMap"} |-> EmptyDict],
     made |-> <<>>]

\* The class statement of c: __init_subclass__ enters a class that has a
\* _backend_key into the table it finds as cls._backend_registry.
DefineClass(st, c) ==
    LET st1 == [st EXCEPT !.defined = Append(@, c)]
    IN IF c # "ContextLocal" /\ BackendKey(c) # "None"
       THEN [st1 EXCEPT !.tables[TableHolder(c)] = DictSet(@, BackendKey(c), c)]
       ELSE st1

\* The order in which `import extracontext` runs the class statements.
ImportOrder ==
    <<"ContextLocal", "PyContextLocal", "NativeContextLocal",
      "ContextMap", "PyContextMap", "NativeContextMap">>

RECURSIVE DefineAll(_, _)
DefineAll(st, seq) ==
    IF seq = <<>> THEN st ELSE DefineAll(DefineClass(st, Head(seq)), Tail(seq))

\* The classes after `import extracontext`.
Imported == DefineAll(NoClasses, ImportOrder)

\* ContextLocal.__new__(cls, backend=backend): the class of the object it
\* returns, or the KeyError of the table lookup.
NewTarget(st, cls, backend) ==
    LET b == IF backend # "None" THEN backend
             ELSE IF BackendKey(cls) # "None" THEN BackendKey(cls)
             ELSE "native"
        table == st.tables[TableHolder(cls)]
    IN IF b \in DOMAIN table THEN table[b] ELSE "KeyError"

\* c is cls or a subclass of it.
IsSubclass(c, cls) == \E i \in 1..Len(Mro[c]) : Mro[c][i] = cls

\* __init__ of an object of class c raises: NativeContextLocal.__init__ reads
\* self._et_registry before it is set, and __getattr__ reads it again.
InitRaises(c) == IsSubclass(c, "NativeContextLocal")

\* cls(backend=backend): __new__, then __init__ if the object is an instance
\* of cls.  The result is the class of the instance, or what was raised.
ConstructResult(st, cls, backend) ==
    LET target == NewTarget(st, cls, backend)
    IN IF target = "KeyError" THEN "KeyError"
       ELSE IF IsSubclass(target, cls) /\ InitRaises(target) THEN "RecursionError"
       ELSE target

\* ------------------------------ the native namespace, statement by statement
\* ContextVar objects one namespace creates.
MaxVars == 3
VarIds == 1..MaxVars

\* A namespace shared by threads that are already running, each in its own
\* context: reg is _et_registry in insertion order (name, ContextVar), val
\* what every ContextVar holds in each thread's context, pc and loc where
\* each thread is inside __setattr__ and its local variables, last what the
\* thread's completed assignments gave each name.
NoVars ==
    [reg |-> <<>>,
     nvars |-> 0,
     val |-> [t \in Threads |-> [x \in VarIds |-> NotBound]],
     pc |-> [t \in Threads |-> "idle"],
     loc |-> [t \in Threads |-> [name |-> "a", value |-> 0, var |-> 0]],
     last |-> [t \in Threads |-> [k \in Names |-> NotBound]]]

\* ctx = NativeContextLocal() in the main thread: every thread has a stack
\* of contexts it entered, the last one current; a context gives every name
\* a value, _sentinel, or nothing (NotBound).  The main thread starts in its
\* base context, the other threads are not started.  stack is _et_stack:
\* key -> list of the contexts entered by __enter__, each known by the thread
\* that entered it and its position in that thread's stack.
NoNat ==
    [ctx |-> [t \in Threads |-> IF t = 1 THEN <<[k \in Names |-> NotBound]>> ELSE <<>>],
     stack |-> EmptyDict,
     reg |-> {}]

\* ContextPreservingExecutor(1) before anything was submitted.  tctx is the
\* value of the context variable in each submitter's context (0: not set),
\* wctx its value in the worker thread's own context, queue the work items
\* waiting, worker the item the worker thread runs: ctx is the context it
\* runs in, read what it read first, fresh whether it has assigned yet.
Idle == [busy |-> FALSE, sub |-> 0, ctx |-> 0, want |-> 0, read |-> 0, fresh |-> FALSE]
NoExecutor ==
    [tctx |-> [k \in TaskIds |-> 0], wctx |-> 0, queue |-> <<>>, worker |-> Idle]

\* No generator was handed to _generator_wrapper yet.  wstate is the state
\* of the wrapper, pc the yield the wrapped generator is suspended at (0:
\* not started, Len(script) + 1: finished), got what it received when it
\* was last resumed, out what the driver got from its last operation, cctx
\* and dctx the value of the context variable in ctx_copy and in the
\* driver's context (0: not set), iread and lastw what the generator last
\* read and wrote, closes how often GeneratorExit was raised in it.
NoNative ==
    [wstate |-> "none", script |-> <<>>, ret |-> 0, pc |-> 0,
     got |-> [kind |-> "none", val |-> 0],
     out |-> [kind |-> "none", val |-> 0],
     cctx |-> 0, dctx |-> 0, iread |-> 0, lastw |-> 0, closes |-> 0]

Init ==
    /\ frames = [f \in {1} |-> NewFrame(0, "user")]
    /\ registry = EmptyDict
    /\ cur = [t \in Threads |-> IF t = 1 THEN 1 ELSE 0]
    /\ tstate = [t \in Threads |-> IF t = 1 THEN "run" ELSE "new"]
    /\ loop = [on |-> FALSE, runner |-> 0, running |-> 0]
    /\ tasks = [k \in TaskIds |-> [state |-> "none", frame |-> 0, did |-> {},
                                   snap |-> Unbound]]
    /\ gens = [g \in GenIds |-> NoGen]
    /\ native = NoNative
    /\ nat = NoNat
    /\ ex = NoExecutor
    /\ classes = Imported
    /\ cvars = NoVars
    /\ other = [reg |-> EmptyDict, open |-> EmptyDict]
    /\ scopes = EmptyDict

\* The frames fs are gone: the second namespace's weak registry forgets them.
Forget(o, fs) ==
    [reg |-> [f \in DOMAIN o.reg \ fs |-> o.reg[f]],
     open |-> [f \in DOMAIN o.open \ fs |-> o.open[f]]]

\* Thread t is executing user code.
InUser(t) == tstate[t] = "run" /\ cur[t] # 0

Install(h) == frames' = h.fr /\ registry' = h.reg

\* Frame ids are reused once the frame is gone: the registry keeps no trace
\* of a dead frame.
NewId(taken) ==
    CHOOSE i \in FrameIds \ (DOMAIN frames \cup taken) :
        \A j \in FrameIds \ (DOMAIN frames \cup taken) : i <= j

RECURSIVE Depth(_)
Depth(f) == IF f = 0 THEN 0 ELSE 1 + Depth(frames[f].back)

RECURSIVE LayersAlong(_)
LayersAlong(f) ==
    IF f = 0 THEN 0
    ELSE (IF f \in DOMAIN registry THEN Len(registry[f]) ELSE 0)
         + LayersAlong(frames[f].back)

\* Frame f can take one more binding layer within the bounds.
Room(f) == Len(frames[f].ctxs) < MaxCtxs /\ LayersAlong(f) < MaxLayers

\* ctx.<name> = value in thread t.
Set(t, name, value) ==
    /\ UNCHANGED <<gens, native, nat, ex, classes, cvars, other>>
    /\ InUser(t)
    /\ UNCHANGED <<cur, tstate, loop>>
    /\ IntrospectRegistry(Heap, cur[t], NoName).found \/ Room(cur[t])
    /\ scopes' = Touch(cur[t], name, value)
    /\ Install(SetAttr(Heap, cur[t], name, value))
    /\ tasks' = IF t = 1 /\ loop.running # 0
                THEN [tasks EXCEPT ![loop.running].did = @ \cup {name}]
                ELSE tasks

\* del ctx.<name> in thread t; where it raises AttributeError nothing changes.
Del(t, name) ==
    /\ UNCHANGED <<gens, native, nat, ex, classes, cvars, other>>
    /\ InUser(t)
    /\ IF DelAttrRaises(Heap, cur[t], name)
       THEN /\ UNCHANGED <<frames, registry, scopes>>
       ELSE /\ Install(DelAttr(Heap, cur[t], name))
            /\ scopes' = Touch(cur[t], name, NotBound)
    /\ UNCHANGED <<cur, tstate, loop, tasks>>

\* A call of an undecorated function.
CallPlain(t) ==
    /\ UNCHANGED <<gens, native, nat, ex, classes, cvars, other>>
    /\ InUser(t)
    /\ Depth(cur[t]) < MaxDepth
    /\ LET c == NewId({})
       IN /\ frames' = DictSet(frames, c, NewFrame(cur[t], "user"))
          /\ cur' = [cur EXCEPT ![t] = c]
    /\ UNCHANGED <<registry, tstate, loop, tasks, scopes>>

\* A call of a function decorated with the namespace, up to the first
\* statement of the function: the wrapper registers a layer on its own frame
\* and calls the function.
CallScoped(t) ==
    /\ UNCHANGED <<gens, native, nat, ex, classes, cvars, other>>
    /\ InUser(t)
    /\ Depth(cur[t]) + 2 <= MaxDepth
    /\ LayersAlong(cur[t]) < MaxLayers
    /\ LET w == NewId({})
           c == NewId({w})
           h0 == [fr |-> DictSet(frames, w, NewFrame(cur[t], "wrapper")), reg |-> registry]
           h1 == RegisterContext(h0, w)
       IN /\ frames' = DictSet(h1.fr, c, NewFrame(w, "user"))
          /\ registry' = h1.reg
          /\ cur' = [cur EXCEPT ![t] = c]
          /\ scopes' = PushScope(scopes, w, NewScope(Visible(Heap, cur[t]), FALSE))
    /\ UNCHANGED <<tstate, loop, tasks>>

\* ctx._run(function), up to the first statement of the function: _run
\* enters the namespace as a context manager on its own frame.
RunIsolated(t) ==
    /\ UNCHANGED <<gens, native, nat, ex, classes, cvars, other>>
    /\ InUser(t)
    /\ Depth(cur[t]) + 2 <= MaxDepth
    /\ LayersAlong(cur[t]) < MaxLayers
    /\ LET r == NewId({})
           c == NewId({r})
           h0 == [fr |-> DictSet(frames, r, [NewFrame(cur[t], "_run") EXCEPT !.open = 1]),
                  reg |-> registry]
           h1 == RegisterContext(h0, r)
       IN /\ frames' = DictSet(h1.fr, c, NewFrame(r, "user"))
          /\ registry' = h1.reg
          /\ cur' = [cur EXCEPT ![t] = c]
          /\ scopes' = PushScope(scopes, r, NewScope(Visible(Heap, cur[t]), FALSE))
    /\ UNCHANGED <<tstate, loop, tasks>>

\* `with ctx:` in user code: __enter__.
EnterWith(t) ==
    /\ UNCHANGED <<gens, native, nat, ex, classes, cvars, other>>
    /\ InUser(t)
    /\ Room(cur[t])
    /\ LET h1 == RegisterContext(Heap, cur[t])
       IN Install([h1 EXCEPT !.fr[cur[t]].open = @ + 1])
    /\ scopes' = PushScope(scopes, cur[t], NewScope(Visible(Heap, cur[t]), FALSE))
    /\ UNCHANGED <<cur, tstate, loop, tasks>>

\* The end of a `with ctx:` block: __exit__.
ExitWith(t) ==
    /\ UNCHANGED <<gens, native, nat, ex, classes, cvars, other>>
    /\ InUser(t)
    /\ frames[cur[t]].open > 0
    /\ CanPop(Heap, cur[t])
    /\ LET h1 == PopContext(Heap, cur[t])
       IN Install([h1 EXCEPT !.fr[cur[t]].open = @ - 1])
    /\ scopes' = PopScope(scopes, cur[t])
    /\ UNCHANGED <<cur, tstate, loop, tasks>>

\* The running function returns.  Returning into the decorator's wrapper runs
\* the wrapper's finally clause, returning into _run leaves its with block;
\* both then return to their own caller.
Return(t) ==
    /\ UNCHANGED <<gens, native, nat, ex, classes, cvars>>
    /\ other' = Forget(other, {cur[t]})
    /\ InUser(t)
    /\ LET c == cur[t]
           b == frames[c].back
       IN /\ frames[c].kind = "user"
          /\ frames[c].open = 0
          /\ b # 0
          /\ IF frames[b].kind = "wrapper"
             THEN /\ Install(Reclaim(Reclaim(WrapperFinally(Heap, b), c), b))
                  /\ cur' = [cur EXCEPT ![t] = frames[b].back]
                  /\ scopes' = DictDel(DictDel(scopes, c), b)
             ELSE IF frames[b].kind = "_run"
             THEN /\ CanPop(Heap, b)
                  /\ Install(Reclaim(Reclaim(PopContext(Heap, b), c), b))
                  /\ cur' = [cur EXCEPT ![t] = frames[b].back]
                  /\ scopes' = DictDel(DictDel(scopes, c), b)
             ELSE /\ Install(Reclaim(Heap, c))
                  /\ cur' = [cur EXCEPT ![t] = b]
                  /\ scopes' = DictDel(scopes, c)
    /\ UNCHANGED <<tstate, loop, tasks>>

\* __dir__ called from frame f: for every frame from f outwards, the names
\* with a value in the first layer _introspect_registry finds from there, then
\* those among them that getattr resolves.
RECURSIVE DirCandidates(_, _)
DirCandidates(h, f) ==
    IF f = 0 THEN {}
    ELSE LET r == IntrospectRegistry(h, f, NoName)
         IN IF ~r.found THEN {}
            ELSE {k \in DOMAIN Layer(h, r.frame, r.idx).vals :
                      Layer(h, r.frame, r.idx).vals[k] # _sentinel}
                 \cup DirCandidates(h, h.fr[f].back)

Dir(h, f) == {k \in DirCandidates(h, f) : GetAttr(h, f, k) # NotBound}

\* ------------------------------------------------ a second namespace
\* ctx2 = PyContextLocal() used by the same functions: it has its own
\* _registry, and keeps its layers in the same "$contexts" list of a frame.
Heap2 == [fr |-> frames, reg |-> other.reg]

Install2(h) == frames' = h.fr /\ other' = [other EXCEPT !.reg = h.reg]

Open2(f) == IF f \in DOMAIN other.open THEN other.open[f] ELSE 0

RECURSIVE LayersAlong2(_)
LayersAlong2(f) ==
    IF f = 0 THEN 0
    ELSE (IF f \in DOMAIN other.reg THEN Len(other.reg[f]) ELSE 0)
         + LayersAlong2(frames[f].back)

\* Frame f can take one more layer of the second namespace within the bounds.
Room2(f) == Len(frames[f].ctxs) < MaxCtxsBoth /\ LayersAlong2(f) < MaxLayers

TwoUnchanged == UNCHANGED <<registry, cur, tstate, loop, tasks, gens, native, nat, ex, classes, cvars, scopes>>

\* ctx2.<name> = value
Set2(t, name, value) ==
    /\ InUser(t)
    /\ IntrospectRegistry(Heap2, cur[t], NoName).found \/ Room2(cur[t])
    /\ Install2(SetAttr(Heap2, cur[t], name, value))
    /\ TwoUnchanged

\* del ctx2.<name>
Del2(t, name) ==
    /\ InUser(t)
    /\ IF DelAttrRaises(Heap2, cur[t], name)
       THEN UNCHANGED <<frames, other>>
       ELSE Install2(DelAttr(Heap2, cur[t], name))
    /\ TwoUnchanged

\* ctx2.__enter__()
EnterWith2(t) ==
    /\ InUser(t)
    /\ Room2(cur[t])
    /\ LET h1 == RegisterContext(Heap2, cur[t])
       IN /\ frames' = h1.fr
          /\ other' = [reg |-> h1.reg,
                       open |-> DictSet(other.open, cur[t], Open2(cur[t]) + 1)]
    /\ TwoUnchanged

\* ctx2.__exit__()
ExitWith2(t) ==
    /\ InUser(t)
    /\ Open2(cur[t]) > 0
    /\ CanPop(Heap2, cur[t])
    /\ LET h1 == PopContext(Heap2, cur[t])
       IN /\ frames' = h1.fr
          /\ other' = [reg |-> h1.reg,
                       open |-> DictSet(other.open, cur[t], Open2(cur[t]) - 1)]
    /\ TwoUnchanged

\* ---------------------------------------------------------------- threads
\* Thread t starts thread u: u's first frame has no caller.
StartThread(t, u) ==
    /\ UNCHANGED <<gens, native, nat, ex, classes, cvars, other>>
    /\ InUser(t)
    /\ tstate[u] = "new"
    /\ LET c == NewId({})
       IN /\ frames' = DictSet(frames, c, NewFrame(0, "user"))
          /\ cur' = [cur EXCEPT ![u] = c]
    /\ tstate' = [tstate EXCEPT ![u] = "run"]
    /\ UNCHANGED <<registry, loop, tasks, scopes>>

\* The target function of thread u returns.
ThreadExit(u) ==
    /\ UNCHANGED <<gens, native, nat, ex, classes, cvars, other>>
    /\ u # 1
    /\ InUser(u)
    /\ frames[cur[u]].back = 0
    /\ frames[cur[u]].open = 0
    /\ Install(Reclaim(Heap, cur[u]))
    /\ scopes' = DictDel(scopes, cur[u])
    /\ cur' = [cur EXCEPT ![u] = 0]
    /\ tstate' = [tstate EXCEPT ![u] = "done"]
    /\ UNCHANGED <<loop, tasks>>

\* ------------------------------------------------------------------ asyncio
\* asyncio.run(main()) called by the main thread's running frame: the
\* coroutine becomes task 1, and the loop runs with that frame beneath it.
RunLoop ==
    /\ UNCHANGED <<gens, native, nat, ex, classes, cvars, other>>
    /\ InUser(1)
    /\ ~loop.on
    /\ \A k \in TaskIds : tasks[k].state = "none"
    /\ Depth(cur[1]) < MaxDepth
    /\ LET c == NewId({})
       IN /\ frames' = DictSet(frames, c, NewFrame(0, "coro"))
          /\ tasks' = [tasks EXCEPT ![1] = [state |-> "ready", frame |-> c, did |-> {},
                                             snap |-> Visible(Heap, cur[1])]]
    /\ loop' = [on |-> TRUE, runner |-> cur[1], running |-> 0]
    /\ cur' = [cur EXCEPT ![1] = 0]
    /\ UNCHANGED <<registry, tstate, scopes>>

\* The running task creates task k from a coroutine.  For a coroutine function
\* decorated with the namespace the wrapper runs as part of the call: it
\* registers a layer on its own frame, drops it in its finally clause, and
\* registers a layer on the frame of the coroutine it got (cr_frame).
CreateTask(k, decorated) ==
    /\ UNCHANGED <<gens, native, nat, ex, classes, cvars, other>>
    /\ InUser(1)
    /\ loop.on /\ loop.running # 0
    /\ tasks[k].state = "none"
    /\ LET c == NewId({})
           w == NewId({c})
           h0 == [fr |-> DictSet(DictSet(frames, c, NewFrame(0, "coro")),
                                 w, NewFrame(cur[1], "wrapper")),
                  reg |-> registry]
           h1 == RegisterContext(WrapperFinally(RegisterContext(h0, w), w), c)
       IN IF decorated
          THEN /\ Install(Reclaim(h1, w))
               /\ scopes' = PushScope(scopes, c, NewScope(Unbound, FALSE))
          ELSE /\ frames' = DictSet(frames, c, NewFrame(0, "coro"))
               /\ UNCHANGED <<registry, scopes>>
    /\ tasks' = [tasks EXCEPT ![k] = [state |-> "ready", frame |-> NewId({}), did |-> {},
                                    snap |-> Visible(Heap, cur[1])]]
    /\ UNCHANGED <<cur, tstate, loop>>

\* The loop gives task k its turn: the coroutine's frame runs on top of the
\* frame that runs the loop.
Resume(k) ==
    /\ UNCHANGED <<gens, native, nat, ex, classes, cvars, other>>
    /\ loop.on /\ loop.running = 0
    /\ tasks[k].state = "ready"
    /\ frames' = [frames EXCEPT ![tasks[k].frame].back = loop.runner]
    /\ cur' = [cur EXCEPT ![1] = tasks[k].frame]
    /\ loop' = [loop EXCEPT !.running = k]
    /\ UNCHANGED <<registry, tstate, tasks, scopes>>

\* The running task awaits: its frame leaves the stack.
Suspend ==
    /\ UNCHANGED <<gens, native, nat, ex, classes, cvars, other>>
    /\ loop.on /\ loop.running # 0
    /\ cur[1] = tasks[loop.running].frame
    /\ frames' = [frames EXCEPT ![cur[1]].back = 0]
    /\ cur' = [cur EXCEPT ![1] = 0]
    /\ loop' = [loop EXCEPT !.running = 0]
    /\ UNCHANGED <<registry, tstate, tasks, scopes>>

\* The running task's coroutine returns.
FinishTask ==
    /\ UNCHANGED <<gens, native, nat, ex, classes, cvars, other>>
    /\ loop.on /\ loop.running # 0
    /\ cur[1] = tasks[loop.running].frame
    /\ frames[cur[1]].open = 0
    /\ Install(Reclaim(Heap, cur[1]))
    /\ scopes' = DictDel(scopes, cur[1])
    /\ tasks' = [tasks EXCEPT ![loop.running].state = "done", ![loop.running].frame = 0]
    /\ cur' = [cur EXCEPT ![1] = 0]
    /\ loop' = [loop EXCEPT !.running = 0]
    /\ UNCHANGED tstate

\* asyncio.run returns once every task is done.
LoopExit ==
    /\ UNCHANGED <<gens, native, nat, ex, classes, cvars, other>>
    /\ loop.on /\ loop.running = 0
    /\ tasks[1].state = "done"
    /\ \A k \in TaskIds : tasks[k].state \in {"none", "done"}
    /\ cur' = [cur EXCEPT ![1] = loop.runner]
    /\ loop' = [on |-> FALSE, runner |-> 0, running |-> 0]
    /\ UNCHANGED <<frames, registry, tstate, tasks, scopes>>

\* --------------------------------------------------------------- generators
\* A plausible slip: the wrapper forgets the frame of the generator it got.
CallSuspendable_NoFrameLayer(h, caller, c, w) ==
    LET h0 == [fr |-> DictSet(DictSet(h.fr, c, NewFrame(0, "gen")),
                              w, NewFrame(caller, "wrapper")),
               reg |-> h.reg]
    IN Reclaim(WrapperFinally(RegisterContext(h0, w), w), w)

\* A call, from frame caller, of a generator function decorated with the
\* namespace: the wrapper (frame w) registers a layer on its own frame, gets
\* the generator (frame c, not started) from the function, drops its own
\* registry entry in the finally clause, registers a layer on the generator's
\* frame (gi_frame) and returns.
CallSuspendable(h, caller, c, w) ==
    LET h0 == [fr |-> DictSet(DictSet(h.fr, c, NewFrame(0, "gen")),
                              w, NewFrame(caller, "wrapper")),
               reg |-> h.reg]
    IN Reclaim(RegisterContext(WrapperFinally(RegisterContext(h0, w), w), c), w)

\* Thread t calls a generator function, decorated or not, and keeps the
\* generator as g.
CreateGen(t, g, decorated) ==
    /\ InUser(t)
    /\ gens[g].state = "none"
    /\ LET c == NewId({})
           w == NewId({c})
       IN /\ IF decorated
             THEN /\ Install(CallSuspendable(Heap, cur[t], c, w))
                  /\ scopes' = PushScope(scopes, c, NewScope(Visible(Heap, cur[t]), FALSE))
             ELSE /\ frames' = DictSet(frames, c, NewFrame(0, "gen"))
                  /\ UNCHANGED <<registry, scopes>>
          /\ gens' = [gens EXCEPT ![g] = [state |-> "suspended", frame |-> c,
                                          scoped |-> decorated, steps |-> 0,
                                          dview |-> Unbound]]
    /\ UNCHANGED <<cur, tstate, loop, tasks, native, nat, ex, classes, cvars, other>>

\* Thread t gives generator g a step (next, send or throw; close where
\* closing): the generator's frame runs on top of the frame that drives it.
ResumeGen(t, g, closing) ==
    /\ InUser(t)
    /\ gens[g].state = "suspended"
    /\ gens[g].steps < MaxSteps
    /\ closing => gens[g].steps > 0
    /\ Depth(cur[t]) < MaxDepth
    /\ LayersAlong(cur[t]) + LayersAlong(gens[g].frame) <= MaxLayers
    /\ frames' = [frames EXCEPT ![gens[g].frame].back = cur[t]]
    /\ cur' = [cur EXCEPT ![t] = gens[g].frame]
    /\ gens' = [gens EXCEPT ![g].state = IF closing THEN "closing" ELSE "running",
                            ![g].steps = @ + 1,
                            ![g].dview = Visible(Heap, cur[t])]
    /\ UNCHANGED <<registry, tstate, loop, tasks, scopes, native, nat, ex, classes, cvars, other>>

\* The generator thread t is running yields: its frame leaves the stack.
YieldGen(t, g) ==
    /\ InUser(t)
    /\ gens[g].state = "running"
    /\ cur[t] = gens[g].frame
    /\ cur' = [cur EXCEPT ![t] = frames[cur[t]].back]
    /\ frames' = [frames EXCEPT ![cur[t]].back = 0]
    /\ gens' = [gens EXCEPT ![g].state = "suspended", ![g].dview = Unbound]
    /\ UNCHANGED <<registry, tstate, loop, tasks, scopes, native, nat, ex, classes, cvars, other>>

\* The generator thread t is running returns or raises, as it must once it
\* was closed: its frame is gone.
FinishGen(t, g) ==
    /\ InUser(t)
    /\ gens[g].state \in {"running", "closing"}
    /\ cur[t] = gens[g].frame
    /\ frames[cur[t]].open = 0
    /\ Install(Reclaim(Heap, cur[t]))
    /\ scopes' = DictDel(scopes, cur[t])
    /\ cur' = [cur EXCEPT ![t] = frames[cur[t]].back]
    /\ gens' = [gens EXCEPT ![g] = [NoGen EXCEPT !.state = "done"]]
    /\ UNCHANGED <<tstate, loop, tasks, native, nat, ex, classes, cvars, other>>


\* ------------------------------------------- the native generator wrapper
\* NativeContextLocal._generator_wrapper(generator, ctx_copy) is a static
\* method; the wrapped generator is a list of yields: what it yields there
\* (0: None) and whether it handles an exception raised there.  Every time
\* it is resumed it reads the context variable and assigns it.
Points == [y : 0..MaxVal, catch : BOOLEAN]
Scripts == UNION {[1..n -> Points] : n \in 0..MaxPts}

\* A plausible slip: the generator is resumed in the caller's context.
CtxCopyRun_InCaller(n, got, w) ==
    [n EXCEPT !.got = got, !.iread = n.dctx, !.dctx = w, !.lastw = w]

\* ctx_copy.run(f, ...): the generator's code between two yields runs in
\* ctx_copy, reads the variable there and assigns it there.
CtxCopyRun(n, got, w) ==
    [n EXCEPT !.got = got, !.iread = n.cctx, !.cctx = w, !.lastw = w]

\* The generator runs on to its next yield or returns.
InnerAdvance(n) ==
    LET p == n.pc + 1
    IN IF p <= Len(n.script)
       THEN [n |-> [n EXCEPT !.pc = p],
             res |-> [kind |-> "yield", val |-> n.script[p].y]]
       ELSE [n |-> [n EXCEPT !.pc = p],
             res |-> [kind |-> "stop", val |-> n.ret]]

\* next(generator) is generator.send(None).
InnerSend(n, x, w) == InnerAdvance(CtxCopyRun(n, [kind |-> "send", val |-> x], w))

\* generator.throw(exc)
InnerThrow(n, w) ==
    IF n.pc >= 1 /\ n.pc <= Len(n.script) /\ n.script[n.pc].catch
    THEN InnerAdvance(CtxCopyRun(n, [kind |-> "throw", val |-> 0], w))
    ELSE [n |-> [n EXCEPT !.pc = Len(n.script) + 1,
                          !.got = [kind |-> "throw", val |-> 0]],
          res |-> [kind |-> "raise", val |-> 0]]

\* generator.close(): GeneratorExit is raised at the yield, the cleanup code
\* runs, the generator is closed.
InnerClose(n, w) ==
    IF n.pc >= 1 /\ n.pc <= Len(n.script)
    THEN [CtxCopyRun(n, [kind |-> "close", val |-> 0], w)
             EXCEPT !.pc = Len(n.script) + 1, !.closes = @ + 1]
    ELSE [n EXCEPT !.pc = Len(n.script) + 1]

\* A plausible slip: the value sent by the driver is dropped.
WrapperLoop_AlwaysNext(n, value, w) ==
    LET r == InnerSend(n, 0, w)
    IN [r.n EXCEPT !.out = r.res,
                   !.wstate = IF r.res.kind = "yield" THEN "suspended" ELSE "done"]

\* One pass of the while loop: next or send by value, the result is yielded
\* to the driver, StopIteration ends the wrapper with the same value.
WrapperLoop(n, value, w) ==
    LET r == InnerSend(n, value, w)
    IN [r.n EXCEPT !.out = r.res,
                   !.wstate = IF r.res.kind = "yield" THEN "suspended" ELSE "done"]

\* except Exception as exc: value = generator.throw(exc), and the loop goes
\* round again with that value.
WrapperThrow(n, w, w2) ==
    LET r == InnerThrow(n, w)
    IN IF r.res.kind = "yield"
       THEN WrapperLoop(r.n, r.res.val, w2)
       ELSE [r.n EXCEPT !.out = r.res, !.wstate = "done"]

\* A plausible slip: the wrapper ends without closing the generator.
WrapperClose_NoForward(n, w) ==
    [n EXCEPT !.out = [kind |-> "closed", val |-> 0], !.wstate = "done"]

\* except GeneratorExit: ctx_copy.run(generator.close); raise
WrapperClose(n, w) ==
    [InnerClose(n, w) EXCEPT !.out = [kind |-> "closed", val |-> 0],
                             !.wstate = "done"]

PyUnchanged == UNCHANGED <<frames, registry, cur, tstate, loop, tasks, gens, nat, ex, classes, cvars, other, scopes>>

\* gen = _generator_wrapper(func(), copy_context())
NCreate(s, r) ==
    /\ native.wstate = "none"
    /\ native' = [NoNative EXCEPT !.wstate = "created", !.script = s, !.ret = r,
                                  !.cctx = native.dctx, !.dctx = native.dctx]
    /\ PyUnchanged

\* The driver assigns the variable in its own context.
NDriverSet(v) ==
    /\ native.wstate # "done"
    /\ native' = [native EXCEPT !.dctx = v]
    /\ PyUnchanged

\* next(gen) (x = 0) or gen.send(x); a value cannot be sent to a generator
\* that was not started.
NSend(x, w) ==
    /\ native.wstate \in {"created", "suspended"}
    /\ x # 0 => native.wstate = "suspended"
    /\ native' = WrapperLoop(native, x, w)
    /\ PyUnchanged

\* gen.throw(exc) while the wrapper is suspended at its yield
NThrow(w, w2) ==
    /\ native.wstate = "suspended"
    /\ native' = WrapperThrow(native, w, w2)
    /\ PyUnchanged

\* gen.close() while the wrapper is suspended at its yield
NClose(w) ==
    /\ native.wstate = "suspended"
    /\ native' = WrapperClose(native, w)
    /\ PyUnchanged


\* ------------------------------------- the native async generator wrapper
\* NativeContextLocal._async_generator_wrapper: the wrapped asynchronous
\* generator is the same list of yields, each of its steps runs as a task in
\* ctx_copy.  The wrapper is suspended at the yield of its loop
\* ("suspended") or at the yield of its except clause ("handling").
\* One pass of the while loop: anext or asend by value; StopAsyncIteration
\* ends the wrapper.
AWrapperLoop(n, value, w) ==
    LET r == InnerSend(n, value, w)
    IN IF r.res.kind = "yield"
       THEN [r.n EXCEPT !.out = r.res, !.wstate = "suspended"]
       ELSE [r.n EXCEPT !.out = [kind |-> "stop", val |-> 0], !.wstate = "done"]

\* An exception raised at the yield of the loop is passed to generator.athrow
\* and what the generator yields is yielded from within the except clause; an
\* exception raised at that second yield is caught by nothing.
AWrapperThrow(n, w) ==
    IF n.wstate = "handling"
    THEN [n EXCEPT !.out = [kind |-> "raise", val |-> 0], !.wstate = "done"]
    ELSE LET r == InnerThrow(n, w)
         IN IF r.res.kind = "yield"
            THEN [r.n EXCEPT !.out = r.res, !.wstate = "handling"]
            ELSE IF r.res.kind = "stop"
            THEN [r.n EXCEPT !.out = [kind |-> "stop", val |-> 0], !.wstate = "done"]
            ELSE [r.n EXCEPT !.out = r.res, !.wstate = "done"]

\* except GeneratorExit: generator.aclose() is awaited; GeneratorExit raised at
\* the yield of the except clause is caught by nothing.
AWrapperClose(n, w) ==
    IF n.wstate = "handling"
    THEN [n EXCEPT !.out = [kind |-> "closed", val |-> 0], !.wstate = "done"]
    ELSE [InnerClose(n, w) EXCEPT !.out = [kind |-> "closed", val |-> 0],
                                  !.wstate = "done"]

\* await anext(gen) (x = 0) or await gen.asend(x)
ASend(x, w) ==
    /\ native.wstate \in {"created", "suspended", "handling"}
    /\ x # 0 => native.wstate # "created"
    /\ native' = AWrapperLoop(native, x, w)
    /\ PyUnchanged

\* await gen.athrow(exc)
AThrow(w) ==
    /\ native.wstate \in {"suspended", "handling"}
    /\ native' = AWrapperThrow(native, w)
    /\ PyUnchanged

\* await gen.aclose()
AClose(w) ==
    /\ native.wstate \in {"suspended", "handling"}
    /\ native' = AWrapperClose(native, w)
    /\ PyUnchanged

\* ------------------------------------------- the context-preserving executor
\* A plausible slip: the snapshot is taken when the worker starts the item.
WorkItemRun_Lazy(x, item) == x.tctx[item.sub]

\* A plausible slip: the item runs in the worker thread's own context.
WorkItemRun_InWorkerThread(x, item) == x.wctx

\* _CustomWorkItem.__init__, called inside submit by submitter k:
\* self._context = contextvars.copy_context().  want is the value the
\* submitter reads as it submits.
WorkItemInit(x, k) == [sub |-> k, ctx |-> x.tctx[k], want |-> x.tctx[k]]

\* _CustomWorkItem.run: ctx = self._context.copy(); ctx.run(super().run) -
\* the value of the variable in the context the item runs in.
WorkItemRun(x, item) == item.ctx

ExUnchanged ==
    UNCHANGED <<frames, registry, cur, tstate, loop, tasks, gens, native, nat, classes, cvars,
                other, scopes>>

\* Submitter k assigns the variable in its own context.
XSet(k, v) ==
    /\ ex' = [ex EXCEPT !.tctx[k] = v]
    /\ ExUnchanged

\* executor.submit(fn) by submitter k
XSubmit(k) ==
    /\ Len(ex.queue) < MaxQueue
    /\ ex' = [ex EXCEPT !.queue = Append(@, WorkItemInit(ex, k))]
    /\ ExUnchanged

\* The worker thread takes the next item and runs it up to its first read
\* of the variable.
XStart ==
    /\ ~ex.worker.busy
    /\ ex.queue # <<>>
    /\ LET item == Head(ex.queue)
           c == WorkItemRun(ex, item)
       IN ex' = [ex EXCEPT !.queue = Tail(@),
                           !.worker = [busy |-> TRUE, sub |-> item.sub, ctx |-> c,
                                       want |-> item.want, read |-> c, fresh |-> TRUE]]
    /\ ExUnchanged

\* The running item assigns the variable: ContextVar.set in the context it
\* runs in.
XItemSet(v) ==
    /\ ex.worker.busy
    /\ ex' = [ex EXCEPT !.worker.ctx = v, !.worker.fresh = FALSE]
    /\ ExUnchanged

\* The item returns; the context it ran in is dropped.
XFinish ==
    /\ ex.worker.busy
    /\ ex' = [ex EXCEPT !.worker = Idle]
    /\ ExUnchanged

\* --------------------------------------------------------- specifications
\* One thread, every scope construct.  Every function assigns and deletes
\* "a"; "b" is the bystander that only the outermost function assigns.
Next ==
    \/ \E v \in Values : Set(1, "a", v)
    \/ frames[cur[1]].back = 0 /\ Set(1, "b", 1)
    \/ Del(1, "a")
    \/ CallPlain(1)
    \/ CallScoped(1)
    \/ RunIsolated(1)
    \/ EnterWith(1)
    \/ ExitWith(1)
    \/ Return(1)

Spec == Init /\ [][Next]_vars

\* Threads, each assigning its own number.
NextThreads ==
    \/ \E t \in Threads : Set(t, "a", t)
    \/ \E t \in Threads : Del(t, "a")
    \/ \E t \in Threads : CallScoped(t)
    \/ \E t \in Threads : CallPlain(t)
    \/ \E t \in Threads : Return(t)
    \/ \E t, u \in Threads : StartThread(t, u)
    \/ \E u \in Threads : ThreadExit(u)

SpecThreads == Init /\ [][NextThreads]_vars

\* One event loop; the code outside the loop assigns any value, a task
\* assigns its own number.
NextAsync ==
    \/ \E v \in Values : ~loop.on /\ Set(1, "a", v)
    \/ loop.on /\ Set(1, "a", loop.running)
    \/ RunLoop
    \/ \E k \in TaskIds, d \in BOOLEAN : CreateTask(k, d)
    \/ \E k \in TaskIds : Resume(k)
    \/ Suspend
    \/ FinishTask
    \/ LoopExit

SpecAsync == Init /\ [][NextAsync]_vars

\* One function that assigns and deletes "a", opens with blocks, creates
\* generators and drives them; the generators do the same as they run.
NextGen ==
    \/ \E v \in Values : Set(1, "a", v)
    \/ Del(1, "a")
    \/ EnterWith(1)
    \/ ExitWith(1)
    \/ \E g \in GenIds, d \in BOOLEAN : CreateGen(1, g, d)
    \/ \E g \in GenIds, c \in BOOLEAN : ResumeGen(1, g, c)
    \/ \E g \in GenIds : YieldGen(1, g)
    \/ \E g \in GenIds : FinishGen(1, g)

SpecGen == Init /\ [][NextGen]_vars

\* Two namespaces used by the same function, their operations interleaved
\* in any order.
NextTwo ==
    \/ \E v \in Values : Set(1, "a", v)
    \/ Del(1, "a")
    \/ EnterWith(1)
    \/ ExitWith(1)
    \/ \E v \in Values : Set2(1, "a", v)
    \/ Del2(1, "a")
    \/ EnterWith2(1)
    \/ ExitWith2(1)

SpecTwo == Init /\ [][NextTwo]_vars

\* Submitters, each with its own context, and one worker thread.
NextExecutor ==
    \/ \E k \in TaskIds, v \in Values : XSet(k, v)
    \/ \E k \in TaskIds : XSubmit(k)
    \/ XStart
    \/ \E v \in Values : XItemSet(v)
    \/ XFinish

SpecExecutor == Init /\ [][NextExecutor]_vars

\* One generator behind the native wrapper, any script, any driver.
NextNativeGen ==
    \/ \E s \in Scripts, r \in 0..MaxVal : NCreate(s, r)
    \/ \E v \in Values : NDriverSet(v)
    \/ \E x \in 0..MaxVal, w \in Values : NSend(x, w)
    \/ \E w, w2 \in Values : NThrow(w, w2)
    \/ \E w \in Values : NClose(w)

SpecNativeGen == Init /\ [][NextNativeGen]_vars

\* One asynchronous generator behind the native wrapper, any script, any
\* consumer.
NextNativeAGen ==
    \/ \E s \in Scripts, r \in {0} : NCreate(s, r)
    \/ \E v \in Values : NDriverSet(v)
    \/ \E x \in 0..MaxVal, w \in Values : ASend(x, w)
    \/ \E w \in Values : AThrow(w)
    \/ \E w \in Values : AClose(w)

SpecNativeAGen == Init /\ [][NextNativeAGen]_vars

\* ------------------------------------------------------------ properties
\* The binding layers a frame sees, nearest first: for every frame from f
\* outwards, the layers registered for it, newest first.
LayersOf(h, f) ==
    IF f \in DOMAIN h.reg
    THEN [i \in 1..Len(h.reg[f]) |-> Layer(h, f, h.reg[f][Len(h.reg[f]) - i + 1])]
    ELSE <<>>

RECURSIVE Ancestry(_, _)
Ancestry(h, f) ==
    IF f = 0 THEN <<>> ELSE LayersOf(h, f) \o Ancestry(h, h.fr[f].back)

\* What the resolution rule gives for name k over the layers ls, nearest
\* first.
ResolveIn(ls, k) ==
    LET m == {i \in 1..Len(ls) : k \in DOMAIN ls[i].vals}
    IN IF m = {} THEN NotBound
       ELSE LET n == CHOOSE i \in m : \A j \in m : i <= j
            IN IF ls[n].vals[k] = _sentinel THEN NotBound ELSE ls[n].vals[k]

Resolve(h, f, k) == ResolveIn(Ancestry(h, f), k)

\* The layers from the i-th on.
Beyond(ls, i) == SubSeq(ls, i, Len(ls))

\* The scopes open around frame f, innermost first.
Reversed(sq) == [i \in 1..Len(sq) |-> sq[Len(sq) - i + 1]]
RECURSIVE OpenScopes(_)
OpenScopes(f) ==
    IF f = 0 THEN <<>> ELSE Reversed(ScopesOf(f)) \o OpenScopes(frames[f].back)

\* The layer thread t assigns to.
OwnLayer(t) ==
    LET r == IntrospectRegistry(Heap, cur[t], NoName)
    IN Layer(Heap, r.frame, r.idx)

\* Thread t is inside a scope it entered (a decorated call, a with block or
\* _run), as opposed to the layer an assignment made for itself.
Nested(t) == InUser(t) /\ InScope(cur[t]) /\ ~CurScope(cur[t]).implicit

\* Thread t leaves the scope it is in.
ScopeExit(t) ==
    \/ ExitWith(t)
    \/ /\ InUser(t)
       /\ frames[cur[t]].back # 0
       /\ frames[frames[cur[t]].back].kind \in {"wrapper", "_run"}
       /\ Return(t)

\* C1: an assignment ctx.K = v, made in any frame and any state of the layers
\* (none, one, several; K unbound, bound or tombstoned), is followed by a read
\* of K in the same frame that yields v.
C1_SetThenGet ==
    [][\A t \in Threads, k \in Names, v \in Values :
          Set(t, k, v) => GetAttr(Heap, cur[t], k)' = v]_vars

\* A nested scope that found "a" bound to 1 has assigned 2 to it, and reads 2.
C1_Witness ==
    /\ Nested(1)
    /\ CurScope(cur[1]).view["a"] = 1
    /\ "a" \notin CurScope(cur[1]).dels
    /\ "a" \in DOMAIN CurScope(cur[1]).mine
    /\ CurScope(cur[1]).mine["a"] = 2
    /\ GetAttr(Heap, cur[1], "a") = 2

\* C2: when a nested scope (decorated call, with block, _run) is left, the
\* enclosing code reads for every name exactly what it read right before the
\* scope was entered, whatever the scope assigned and deleted.
C2_ScopeExitRestores ==
    [][\A t \in Threads :
          ScopeExit(t) => Visible(Heap, cur[t])' = CurScope(cur[t]).view]_vars

\* A frame has left a with block (its "$contexts" keeps the None the exit
\* wrote) and reads the values of its own, still registered layer.
C2_Witness ==
    /\ InUser(1)
    /\ \E i \in 1..Len(frames[cur[1]].ctxs) : frames[cur[1]].ctxs[i].isNone
    /\ cur[1] \in DOMAIN registry /\ Len(registry[cur[1]]) = 1
    /\ GetAttr(Heap, cur[1], "a") = 1
    /\ GetAttr(Heap, cur[1], "b") = 1

\* C3: a read of K yields what the nearest layer mentioning K holds, and is
\* unbound exactly when no layer mentions K or that nearest layer holds the
\* tombstone; a nested scope that did not touch K reads what the enclosing
\* code read on entry.
C3_ResolutionRule ==
    \A t \in Threads : InUser(t) =>
        \A k \in Names :
            /\ GetAttr(Heap, cur[t], k) = Resolve(Heap, cur[t], k)
            /\ (Nested(t) /\ k \notin DOMAIN CurScope(cur[t]).mine)
                   => GetAttr(Heap, cur[t], k) = CurScope(cur[t]).view[k]

\* Three layers: the nearest does not mention "a", the next holds its
\* tombstone, the outermost holds a value, and the read is unbound.
C3_Witness ==
    /\ InUser(1)
    /\ LET ls == Ancestry(Heap, cur[1])
       IN /\ Len(ls) = 3
          /\ "a" \notin DOMAIN ls[1].vals
          /\ "a" \in DOMAIN ls[2].vals /\ ls[2].vals["a"] = _sentinel
          /\ "a" \in DOMAIN ls[3].vals /\ ls[3].vals["a"] \in Values
    /\ GetAttr(Heap, cur[1], "a") = NotBound

\* The scope thread t is in found k bound on entry, and its own latest
\* operation on k is a delete.
DeletedHere(t, k) ==
    /\ Nested(t)
    /\ CurScope(cur[t]).view[k] \in Values
    /\ k \in DOMAIN CurScope(cur[t]).mine
    /\ CurScope(cur[t]).mine[k] = NotBound

\* C4: in a nested scope entered with K bound, after the scope assigned K and
\* then deleted it, a read of K is unbound (the enclosing value does not come
\* back), a further delete raises, and once the scope is left the enclosing
\* code reads the enclosing value again.
C4_DeleteShadowsOuter ==
    /\ [](\A t \in Threads, k \in Names : DeletedHere(t, k) =>
            /\ GetAttr(Heap, cur[t], k) = NotBound
            /\ DelAttrRaises(Heap, cur[t], k))
    /\ [][\A t \in Threads, k \in Names : (DeletedHere(t, k) /\ ScopeExit(t)) =>
            GetAttr(Heap, cur[t], k)' = CurScope(cur[t]).view[k]]_vars

\* A decorated call entered with "a" = 1 has deleted its own entry for "a"
\* (its layer carries the flag and the tombstone): the read is unbound and
\* another delete raises.
C4_Witness ==
    /\ DeletedHere(1, "a")
    /\ CurScope(cur[1]).view["a"] = 1
    /\ frames[ScopeFrame(cur[1])].kind = "wrapper"
    /\ "a" \in OwnLayer(1).deleted
    /\ OwnLayer(1).vals["a"] = _sentinel
    /\ GetAttr(Heap, cur[1], "a") = NotBound
    /\ DelAttrRaises(Heap, cur[1], "a")

\* The scope thread t is in found k bound on entry, has assigned k itself and
\* has not deleted it so far.
FirstOwnDelete(t, k) ==
    /\ Nested(t)
    /\ CurScope(cur[t]).view[k] \in Values
    /\ k \in DOMAIN CurScope(cur[t]).mine
    /\ CurScope(cur[t]).mine[k] \in Values
    /\ k \notin CurScope(cur[t]).dels

\* C5 as stated: the first delete of K in a nested scope that assigned K
\* exposes the enclosing value of K again.
C5_DeleteRestoresOuter ==
    [][\A t \in Threads, k \in Names : (FirstOwnDelete(t, k) /\ Del(t, k)) =>
          GetAttr(Heap, cur[t], k)' = CurScope(cur[t]).view[k]]_vars

\* C5, amended: the first delete of K in a nested scope that assigned K leaves
\* K unbound there (the enclosing value is not exposed), a second delete
\* raises, and the layers beyond the scope's own still resolve K to the
\* enclosing value.
C5_DeleteOnceUnbinds ==
    [][\A t \in Threads, k \in Names : (FirstOwnDelete(t, k) /\ Del(t, k)) =>
          /\ GetAttr(Heap, cur[t], k)' = NotBound
          /\ DelAttrRaises(Heap, cur[t], k)'
          /\ ResolveIn(Beyond(Ancestry(Heap, cur[t]), 2), k)' = CurScope(cur[t]).view[k]]_vars

\* A with block entered with "a" = 1 has assigned and then deleted "a": its
\* layer holds the tombstone, the read is unbound, and the layers beyond
\* still give 1.
C5_Witness ==
    /\ DeletedHere(1, "a")
    /\ frames[ScopeFrame(cur[1])].kind = "user"
    /\ "a" \in OwnLayer(1).deleted
    /\ OwnLayer(1).vals["a"] = _sentinel
    /\ GetAttr(Heap, cur[1], "a") = NotBound
    /\ ResolveIn(Beyond(Ancestry(Heap, cur[1]), 2), "a") = 1

\* C6: once a nested scope has deleted K, a read of K in that scope yields
\* what the scope itself did to K last (the value it assigned, or unbound
\* after a delete), never the enclosing value; and when the scope is left the
\* enclosing code reads what it read before.
C6_DeletedStaysShadowed ==
    /\ [](\A t \in Threads, k \in Names :
            (Nested(t) /\ k \in CurScope(cur[t]).dels) =>
                GetAttr(Heap, cur[t], k) = CurScope(cur[t]).mine[k])
    /\ [][\A t \in Threads, k \in Names :
            (Nested(t) /\ k \in CurScope(cur[t]).dels /\ ScopeExit(t)) =>
                GetAttr(Heap, cur[t], k)' = CurScope(cur[t]).view[k]]_vars

\* A function run by _run, entered with "a" = 2, has deleted "a" and assigned
\* 1 to it afterwards: it reads 1.
C6_Witness ==
    /\ Nested(1)
    /\ frames[ScopeFrame(cur[1])].kind = "_run"
    /\ CurScope(cur[1]).view["a"] = 2
    /\ "a" \in CurScope(cur[1]).dels
    /\ CurScope(cur[1]).mine["a"] = 1
    /\ GetAttr(Heap, cur[1], "a") = 1

\* C7: where a nested scope N deleted K that was bound in an enclosing layer,
\* K is unbound in N; the scope entered directly under N found K unbound;
\* whatever the scopes under N bind, every one of them leaves what lies
\* beneath it as it found it; and the layers beyond N's own still resolve K to
\* the enclosing value, which is what is read once N is left.
C7_DeleteOfOuterShadows ==
    \A t \in Threads : InUser(t) =>
        LET sc == OpenScopes(cur[t])
            ls == Ancestry(Heap, cur[t])
        IN \A k \in Names, j \in 1..Len(sc) :
            (/\ ~sc[j].implicit
             /\ sc[j].view[k] \in Values
             /\ k \in DOMAIN sc[j].mine
             /\ sc[j].mine[k] = NotBound)
            => /\ ResolveIn(Beyond(ls, j), k) = NotBound
               /\ j > 1 => sc[j - 1].view[k] = NotBound
               /\ \A i \in 1..(j - 1) : ResolveIn(Beyond(ls, i + 1), k) = sc[i].view[k]
               /\ ResolveIn(Beyond(ls, j + 1), k) = sc[j].view[k]

\* Three scopes: the outermost holds "a"; the middle one deleted "a" without
\* having assigned it (its layer holds the tombstone but not the flag, which
\* went to the outermost layer); the innermost found "a" unbound and bound
\* its own.
C7_Witness ==
    /\ InUser(1)
    /\ LET sc == OpenScopes(cur[1])
           ls == Ancestry(Heap, cur[1])
       IN /\ Len(sc) = 3 /\ Len(ls) = 3
          /\ sc[2].view["a"] \in Values
          /\ "a" \in DOMAIN ls[2].vals /\ ls[2].vals["a"] = _sentinel
          /\ "a" \notin ls[2].deleted
          /\ "a" \in ls[3].deleted
          /\ "a" \in DOMAIN ls[3].vals /\ ls[3].vals["a"] \in Values
          /\ sc[1].view["a"] = NotBound
          /\ "a" \in DOMAIN ls[1].vals /\ ls[1].vals["a"] \in Values
    /\ GetAttr(Heap, cur[1], "a") \in Values

\* C8 as stated: wherever a read of K is unbound (no layer mentions K, or the
\* nearest layer mentioning K holds the tombstone, be it the nearest layer of
\* all or one farther out), a delete of K raises.
C8_DeleteOfUnboundRaises ==
    \A t \in Threads : InUser(t) =>
        \A k \in Names :
            GetAttr(Heap, cur[t], k) = NotBound => DelAttrRaises(Heap, cur[t], k)

\* C9: a thread reads only what its own ancestors bound.  Every thread assigns
\* its own number, so: a read yields the reader's number or nothing; a scope
\* that operated on K reads what it did last; a scope that did not reads what
\* its opener read; and a scope that is left restores what its opener read,
\* so the next sibling starts from the parent's bindings.
C9_NoLateralLeak ==
    /\ [](\A t \in Threads : InUser(t) =>
            /\ GetAttr(Heap, cur[t], "a") \in {t, NotBound}
            /\ (InScope(cur[t]) /\ "a" \in DOMAIN CurScope(cur[t]).mine)
                   => GetAttr(Heap, cur[t], "a") = CurScope(cur[t]).mine["a"]
            /\ (Nested(t) /\ "a" \notin DOMAIN CurScope(cur[t]).mine)
                   => GetAttr(Heap, cur[t], "a") = CurScope(cur[t]).view["a"])
    /\ [][\A t \in Threads : ScopeExit(t) =>
            GetAttr(Heap, cur[t], "a")' = CurScope(cur[t]).view["a"]]_vars

\* Two threads run decorated functions at the same time; each assigned its
\* number to "a" and reads it.
C9_Witness ==
    /\ Nested(1) /\ Nested(2)
    /\ GetAttr(Heap, cur[1], "a") = 1
    /\ GetAttr(Heap, cur[2], "a") = 2

\* C10 as stated: a task that assigned its number to K reads that number
\* whenever it runs, whatever the other tasks did in between.
C10_TaskIsolation ==
    \A k \in TaskIds :
        (loop.on /\ loop.running = k /\ InUser(1) /\ "a" \in tasks[k].did)
            => GetAttr(Heap, cur[1], "a") = k

\* C20: the with blocks open in one frame form a stack.  Leaving a with block
\* unregisters exactly the layer entered last and blanks its slot, leaves
\* every other layer as it is, and a read then yields what the layers beneath
\* give, which is what was read right before that block was entered.
C20_WithBlocksAreLifo ==
    [][\A t \in Threads : ExitWith(t) =>
          LET f == cur[t]
              lst == registry[f]
              top == lst[Len(lst)]
          IN /\ \A i \in 1..Len(lst) : lst[i] <= top
             /\ registry'[f] = SubSeq(lst, 1, Len(lst) - 1)
             /\ frames'[f].ctxs[top + 1].isNone
             /\ \A i \in 1..Len(frames[f].ctxs) :
                    i # top + 1 => frames'[f].ctxs[i] = frames[f].ctxs[i]
             /\ \A k \in Names :
                    /\ GetAttr(Heap, f, k)' = ResolveIn(Beyond(Ancestry(Heap, f), 2), k)
                    /\ GetAttr(Heap, f, k)' = CurScope(f).view[k]]_vars

\* A function entered with "a" = 2 opened two with blocks, assigned 1 to "a"
\* in the first, and has left the second: it reads 1 and is still inside the
\* first.
C20_Witness ==
    /\ InUser(1)
    /\ LET f == frames[cur[1]]
       IN /\ Len(f.ctxs) = 2
          /\ ~f.ctxs[1].isNone /\ f.ctxs[2].isNone
          /\ f.open = 1
    /\ registry[cur[1]] = <<0>>
    /\ Nested(1)
    /\ CurScope(cur[1]).view["a"] = 2
    /\ GetAttr(Heap, cur[1], "a") = 1

\* The scopes open on generator frame c assigned or deleted k.
Touched(c, k) == \E i \in 1..Len(ScopesOf(c)) : k \in DOMAIN ScopesOf(c)[i].mine

\* What the scopes open on generator frame c did to k last, innermost scope
\* first.
RECURSIVE OwnLastIn(_, _)
OwnLastIn(sc, k) ==
    IF sc = <<>> THEN NotBound
    ELSE IF k \in DOMAIN Head(sc).mine THEN Head(sc).mine[k]
    ELSE OwnLastIn(Tail(sc), k)
OwnLast(c, k) == OwnLastIn(Reversed(ScopesOf(c)), k)

\* Generator g is decorated and thread t is running its code.
InGen(t, g) ==
    /\ InUser(t)
    /\ gens[g].state \in {"running", "closing"}
    /\ gens[g].scoped
    /\ cur[t] = gens[g].frame

\* C11: whenever a decorated generator runs (a step given by next, send,
\* throw or close), a name it assigned or deleted reads as it left it, whatever
\* the driving code assigned or deleted between the steps.
C11_GeneratorKeepsOwnValue ==
    \A t \in Threads, g \in GenIds, k \in Names :
        (InGen(t, g) /\ Touched(cur[t], k))
            => GetAttr(Heap, cur[t], k) = OwnLast(cur[t], k)

\* A decorated generator in its second step reads the 2 it assigned to "a",
\* while the code driving it, which read 2 when the generator was created,
\* reads 1 now.
C11_Witness ==
    /\ InGen(1, 1)
    /\ gens[1].state = "running" /\ gens[1].steps = 2
    /\ Touched(cur[1], "a") /\ OwnLast(cur[1], "a") = 2
    /\ GetAttr(Heap, cur[1], "a") = 2
    /\ scopes[cur[1]][1].view["a"] = 2
    /\ gens[1].dview["a"] = 1

\* C12: when a step of a decorated generator ends, by a yield, a return or an
\* exception, the code that drove the step reads for every name what it read
\* when it started the step.
C12_StepLeavesDriverUnchanged ==
    [][\A t \in Threads, g \in GenIds :
          (gens[g].scoped /\ (YieldGen(t, g) \/ FinishGen(t, g)))
              => Visible(Heap, cur[t])' = gens[g].dview]_vars

\* A decorated generator was driven from a with block that reads "a" = 1,
\* assigned 2 and deleted it, and has yielded once: the with block reads 1.
C12_Witness ==
    /\ InUser(1)
    /\ gens[1].state = "suspended" /\ gens[1].scoped /\ gens[1].steps = 1
    /\ "a" \in scopes[gens[1].frame][1].dels
    /\ frames[cur[1]].open = 1
    /\ GetAttr(Heap, cur[1], "a") = 1

NextOutcome(n) ==
    IF n.pc + 1 <= Len(n.script)
    THEN [kind |-> "yield", val |-> n.script[n.pc + 1].y]
    ELSE [kind |-> "stop", val |-> n.ret]

\* C13: throw(e) on a wrapped generator that handles e where it is suspended
\* resumes the generator exactly once, and the driver gets what the generator
\* yields next, or its completion.
C13_ThrowAdvancesOneStep ==
    [][\A w, w2 \in Values :
         (NThrow(w, w2) /\ native.script[native.pc].catch) =>
             /\ native'.pc = native.pc + 1
             /\ native'.got.kind = "throw"
             /\ native'.out = NextOutcome(native)]_vars

\* C14: send(x) hands x to the wrapped generator as it is, the driver gets
\* the value the generator yields next, or its return value in the
\* completion, and the variable in the driver's context keeps its value.
C14_SendDelivers ==
    [][\A x \in 0..MaxVal, w \in Values :
         NSend(x, w) =>
             /\ native'.got = [kind |-> "send", val |-> x]
             /\ native'.pc = native.pc + 1
             /\ native'.out = NextOutcome(native)
             /\ native'.dctx = native.dctx]_vars

\* A value was sent and the generator returned a value, while the driver's
\* variable differs from the generator's.
C14_Witness ==
    /\ native.got.kind = "send" /\ native.got.val # 0
    /\ native.out.kind = "stop" /\ native.out.val # 0
    /\ native.pc > 1
    /\ native.dctx # 0 /\ native.dctx # native.cctx

\* C15: closing a suspended wrapped generator raises the close signal in it
\* once; its cleanup reads the value it last assigned and may assign again,
\* the closer's variable keeps its value, and the generator is closed.
C15_CloseRunsCleanupOnce ==
    /\ [](native.closes <= 1)
    /\ [][\A w \in Values :
            NClose(w) =>
                /\ native.closes = 0 /\ native'.closes = 1
                /\ native'.got.kind = "close"
                /\ native.lastw # 0 /\ native'.iread = native.lastw
                /\ native'.cctx = w /\ native'.lastw = w
                /\ native'.dctx = native.dctx
                /\ native'.pc > Len(native.script)
                /\ native'.wstate = "done"]_vars

\* A generator was closed; its cleanup read one value and assigned another,
\* and the closer's variable is a third.
C15_Witness ==
    /\ native.out.kind = "closed" /\ native.closes = 1
    /\ native.iread # 0 /\ native.iread # native.lastw
    /\ native.dctx # 0 /\ native.dctx # native.cctx

\* ------------------------------------------------------- tasks at creation
\* C16: a task that has not assigned K yet reads the value K had for its
\* creator when the task was created (snap), whatever the creator assigned
\* since.
C16_TaskStartsFromSnapshot ==
    \A k \in TaskIds, n \in Names :
        (loop.on /\ loop.running = k /\ InUser(1) /\ cur[1] = tasks[k].frame
            /\ n \notin tasks[k].did)
        => GetAttr(Heap, cur[1], n) = tasks[k].snap[n]

\* ------------------------------------------------------ awaited coroutines
\* An awaited coroutine is a suspendable callable stepped by its awaiter: its
\* frame runs on top of the awaiter's and is gone when it returns.
\* No binding layer is registered for frame c.
NoOwnLayer(c) == c \notin DOMAIN registry \/ Len(registry[c]) = 0

C18_AsyncStepsDelivered ==
    [][/\ \A x \in 0..MaxVal, w \in Values :
            ASend(x, w) =>
                /\ native'.got = [kind |-> "send", val |-> x]
                /\ native.lastw # 0 => native'.iread = native.lastw
                /\ native'.out.kind = "yield" => native'.out = NextOutcome(native)
                /\ native'.dctx = native.dctx
       /\ \A w \in Values :
            AThrow(w) =>
                /\ native'.got.kind = "throw"
                /\ native'.pc > native.pc
                /\ native'.dctx = native.dctx]_vars

\* --------------------------------------------------------- two namespaces
\* A step is an operation on the first namespace / on the second.
OnFirst ==
    \/ \E v \in Values : Set(1, "a", v)
    \/ Del(1, "a")
    \/ EnterWith(1)
    \/ ExitWith(1)
OnSecond ==
    \/ \E v \in Values : Set2(1, "a", v)
    \/ Del2(1, "a")
    \/ EnterWith2(1)
    \/ ExitWith2(1)

\* C21: an operation on one namespace leaves every read of the other
\* namespace as it was.
C21_InstancesIndependent ==
    [][/\ OnSecond => Visible(Heap, cur[1])' = Visible(Heap, cur[1])
       /\ OnFirst => Visible(Heap2, cur[1])' = Visible(Heap2, cur[1])]_vars

\* Both namespaces have layers on the same frame, the first's between two
\* of the second's, and they read different values of "a".
C21_Witness ==
    /\ 1 \in DOMAIN registry /\ Len(registry[1]) >= 1
    /\ 1 \in DOMAIN other.reg /\ Len(other.reg[1]) >= 2
    /\ other.reg[1][1] < registry[1][1] /\ registry[1][1] < other.reg[1][2]
    /\ GetAttr(Heap, 1, "a") = 1
    /\ GetAttr(Heap2, 1, "a") = 2

\* ------------------------------------------------------------ enumeration
\* C22: dir(ctx) is the set of the names a read resolves.
C22_DirMatchesGet ==
    \A t \in Threads :
        InUser(t) => Dir(Heap, cur[t]) = {k \in Names : GetAttr(Heap, cur[t], k) # NotBound}

C25_NewThreadSeesNothing ==
    /\ [](\A u \in Threads :
            (InUser(u) /\ LayersAlong(cur[u]) = 0) => Visible(Heap, cur[u]) = Unbound)
    /\ [][\A t, u \in Threads :
            StartThread(t, u) =>
                /\ Visible(Heap, cur[u])' = Unbound
                /\ Visible(Heap, cur[t])' = Visible(Heap, cur[t])]_vars

\* Thread 1 reads 1 for "a" and thread 2, started by it, has bound nothing.
C25_Witness ==
    /\ InUser(1) /\ InUser(2)
    /\ GetAttr(Heap, cur[1], "a") = 1
    /\ LayersAlong(cur[2]) = 0

\* ------------------------------------------------------- registry cleanup
\* C26: the registry has entries for live frames only; the return of a
\* decorated call removes the entries of the call (the wrapper's and the
\* function's), and once the outermost function runs again with no layer of
\* its own the registry is empty.
C26_ScopedCallLeavesNoEntry ==
    /\ [](/\ DOMAIN registry \subseteq DOMAIN frames
          /\ (cur[1] = 1 /\ (1 \notin DOMAIN registry)) => registry = EmptyDict)
    /\ [][\A t \in Threads :
            (Return(t) /\ frames[frames[cur[t]].back].kind = "wrapper") =>
                DOMAIN registry' = DOMAIN registry \ {cur[t], frames[cur[t]].back}]_vars

\* A decorated function is about to return; the registry has an entry for
\* its wrapper and one for the function itself, which used a with block.
C26_Witness ==
    /\ InUser(1)
    /\ frames[cur[1]].open = 0
    /\ frames[cur[1]].back # 0
    /\ frames[frames[cur[1]].back].kind = "wrapper"
    /\ frames[cur[1]].back \in DOMAIN registry
    /\ cur[1] \in DOMAIN registry

\* C27: a registry entry for a generator's frame belongs to a generator that
\* has not finished; when a generator returns or is closed its entry goes
\* with its frame, and no entry is left for a frame that is gone.
C27_GeneratorEntryReleased ==
    /\ [](\A f \in DOMAIN registry :
            /\ f \in DOMAIN frames
            /\ frames[f].kind = "gen" =>
                   \E g \in GenIds : /\ gens[g].frame = f
                                     /\ gens[g].state \in {"suspended", "running", "closing"})
    /\ [][\A t \in Threads, g \in GenIds :
            FinishGen(t, g) =>
                /\ gens[g].frame \notin DOMAIN registry'
                /\ DOMAIN registry' = DOMAIN registry \ {gens[g].frame}]_vars

\* A decorated generator that was stepped and then closed is about to end,
\* with its entry still in the registry.
C27_Witness ==
    \E g \in GenIds :
        /\ gens[g].state = "closing" /\ gens[g].scoped
        /\ gens[g].steps = MaxSteps
        /\ cur[1] = gens[g].frame
        /\ frames[cur[1]].open = 0
        /\ gens[g].frame \in DOMAIN registry
        /\ Len(registry[gens[g].frame]) > 0


\* ------------------------------------------------- the native namespace
\* The context thread t is running in.
CurrentContext(n, t) == n.ctx[t][Len(n.ctx[t])]

\* NativeContextLocal.__getattr__(name) in thread t: no variable for the
\* name, a variable without a value in the current context and the marker of
\* a deleted attribute all raise AttributeError.
NatGetAttr(n, t, name) ==
    IF name \notin n.reg THEN NotBound
    ELSE LET value == CurrentContext(n, t)[name]
         IN IF value = _sentinel THEN NotBound ELSE value

\* NativeContextLocal.__setattr__(name, value) in thread t: the variable is
\* created on first use and set in the current context.
NatSetAttr(n, t, name, value) ==
    [n EXCEPT !.reg = @ \cup {name},
              !.ctx[t][Len(n.ctx[t])][name] = value]

\* Whether NativeContextLocal.__delattr__(name) raises AttributeError.
NatDelAttrRaises(n, t, name) == NatGetAttr(n, t, name) = NotBound

\* NativeContextLocal.__delattr__(name) where it does not raise.
NatDelAttr(n, t, name) == NatSetAttr(n, t, name, _sentinel)

\* What dir() raises where a variable has no value in the current context.
DirRaises == {"LookupError"}

\* NativeContextLocal.__dir__ in thread t: value.get() is called for every
\* variable of the registry, without a default.
NatDir(n, t) ==
    IF \E k \in n.reg : CurrentContext(n, t)[k] = NotBound THEN DirRaises
    ELSE {k \in n.reg : CurrentContext(n, t)[k] # _sentinel}

\* copy_context() followed by running in the copy: _run does it with
\* new_context.run, __enter__ with PyContext_Enter.
NatEnterCopy(n, t) ==
    [n EXCEPT !.ctx[t] = Append(@, CurrentContext(n, t))]

\* The thread leaves the context it is running in.
NatLeave(n, t) ==
    [n EXCEPT !.ctx[t] = SubSeq(@, 1, Len(@) - 1)]

\* A plausible slip: one stack for all threads.
GetCtxKey_Global(t) == 0

\* _get_ctx_key in thread t outside every task.
GetCtxKey(t) == t

\* NativeContextLocal.__enter__ in thread t.
NatEnter(n, t) ==
    LET n1 == NatEnterCopy(n, t)
        key == GetCtxKey(t)
        entry == [thread |-> t, pos |-> Len(n1.ctx[t])]
    IN [n1 EXCEPT !.stack = DictSet(@, key,
            (IF key \in DOMAIN @ THEN @[key] ELSE <<>>) \o <<entry>>)]

\* NativeContextLocal.__exit__ in thread t: the entry is popped from the
\* stack of the key, the key is dropped with its last entry, and
\* PyContext_Exit leaves the context only where it is the one the thread is
\* running in (it fails otherwise, and __exit__ raises RuntimeError).
NatExit(n, t) ==
    LET key == GetCtxKey(t)
        st == n.stack[key]
        current_ctx == st[Len(st)]
        rest == SubSeq(st, 1, Len(st) - 1)
        n1 == [n EXCEPT !.stack = IF rest = <<>> THEN DictDel(@, key)
                                  ELSE DictSet(@, key, rest)]
    IN IF current_ctx = [thread |-> t, pos |-> Len(n.ctx[t])]
       THEN NatLeave(n1, t)
       ELSE n1


\* ------------------------------------- the two engines, the same program
\* One program in the main thread, run against a PyContextLocal (frames,
\* registry) and against a NativeContextLocal (nat): every step is applied to
\* both.
BothUnchanged == UNCHANGED <<tstate, loop, tasks, gens, native, ex, classes, cvars, other, scopes>>

\* ctx.<name> = value
BothSet(name, value) ==
    /\ InUser(1)
    /\ IntrospectRegistry(Heap, cur[1], NoName).found \/ Room(cur[1])
    /\ Install(SetAttr(Heap, cur[1], name, value))
    /\ nat' = NatSetAttr(nat, 1, name, value)
    /\ UNCHANGED cur
    /\ BothUnchanged

\* del ctx.<name>; an engine where it raises AttributeError is left as it was.
BothDel(name) ==
    /\ InUser(1)
    /\ IF DelAttrRaises(Heap, cur[1], name)
       THEN UNCHANGED <<frames, registry>>
       ELSE Install(DelAttr(Heap, cur[1], name))
    /\ nat' = IF NatDelAttrRaises(nat, 1, name) THEN nat ELSE NatDelAttr(nat, 1, name)
    /\ UNCHANGED cur
    /\ BothUnchanged

\* A call of an undecorated function: a new frame, the same context.
BothCallPlain ==
    /\ InUser(1)
    /\ Depth(cur[1]) < MaxDepth
    /\ LET c == NewId({})
       IN /\ frames' = DictSet(frames, c, NewFrame(cur[1], "user"))
          /\ cur' = [cur EXCEPT ![1] = c]
    /\ UNCHANGED <<registry, nat>>
    /\ BothUnchanged

\* A call of a function decorated with the namespace: the wrapper of
\* PyContextLocal registers a layer on its frame, the wrapper of
\* NativeContextLocal calls _run, which runs the function in a copy of the
\* context.
BothCallScoped ==
    /\ InUser(1)
    /\ Depth(cur[1]) + 2 <= MaxDepth
    /\ LayersAlong(cur[1]) < MaxLayers
    /\ LET w == NewId({})
           c == NewId({w})
           h0 == [fr |-> DictSet(frames, w, NewFrame(cur[1], "wrapper")), reg |-> registry]
           h1 == RegisterContext(h0, w)
       IN /\ frames' = DictSet(h1.fr, c, NewFrame(w, "user"))
          /\ registry' = h1.reg
          /\ cur' = [cur EXCEPT ![1] = c]
    /\ nat' = NatEnterCopy(nat, 1)
    /\ BothUnchanged

\* with ctx:
BothEnterWith ==
    /\ InUser(1)
    /\ Room(cur[1])
    /\ LET h1 == RegisterContext(Heap, cur[1])
       IN Install([h1 EXCEPT !.fr[cur[1]].open = @ + 1])
    /\ nat' = NatEnter(nat, 1)
    /\ UNCHANGED cur
    /\ BothUnchanged

\* The end of a with block.
BothExitWith ==
    /\ InUser(1)
    /\ frames[cur[1]].open > 0
    /\ CanPop(Heap, cur[1])
    /\ LET h1 == PopContext(Heap, cur[1])
       IN Install([h1 EXCEPT !.fr[cur[1]].open = @ - 1])
    /\ nat' = NatExit(nat, 1)
    /\ UNCHANGED cur
    /\ BothUnchanged

\* The running function returns; a decorated one also leaves the wrapper,
\* and with NativeContextLocal the copy of the context it ran in.
BothReturn ==
    /\ InUser(1)
    /\ LET c == cur[1]
           b == frames[c].back
       IN /\ frames[c].kind = "user"
          /\ frames[c].open = 0
          /\ b # 0
          /\ IF frames[b].kind = "wrapper"
             THEN /\ Install(Reclaim(Reclaim(WrapperFinally(Heap, b), c), b))
                  /\ cur' = [cur EXCEPT ![1] = frames[b].back]
                  /\ nat' = NatLeave(nat, 1)
             ELSE /\ Install(Reclaim(Heap, c))
                  /\ cur' = [cur EXCEPT ![1] = b]
                  /\ UNCHANGED nat
    /\ BothUnchanged

NextBoth ==
    \/ \E v \in Values : BothSet("a", v)
    \/ BothDel("a")
    \/ BothCallPlain
    \/ BothCallScoped
    \/ BothEnterWith
    \/ BothExitWith
    \/ BothReturn

SpecBoth == Init /\ [][NextBoth]_vars

\* dir(ctx) of the PyContextLocal, or what it raises.
PyDir == Dir(Heap, cur[1])

\* C28: the python engine and the native engine are observationally
\* equivalent: after every sequence of scope enter/exit, set, delete and
\* scoped-call steps, reading a name returns the same value or fails in both,
\* deleting a name fails in both or in neither, and enumeration returns the
\* same names.
C28_EnginesAgree ==
    InUser(1) =>
        /\ \A k \in Names : GetAttr(Heap, cur[1], k) = NatGetAttr(nat, 1, k)
        /\ \A k \in Names : DelAttrRaises(Heap, cur[1], k) = NatDelAttrRaises(nat, 1, k)
        /\ PyDir = NatDir(nat, 1)


\* ------------------------------------------------- the mapping interface
\* What m[name] yields when __getitem__ raises KeyError.
KeyError == -2

\* The frame of __getitem__, __setitem__ or __delitem__: it stands between
\* the user's frame and the attribute method it calls.
FacadeId(h) ==
    CHOOSE i \in FrameIds \ DOMAIN h.fr : \A j \in FrameIds \ DOMAIN h.fr : i <= j

WithFacade(h, f) ==
    [h EXCEPT !.fr = DictSet(@, FacadeId(h), NewFrame(f, "facade"))]

RECURSIVE FrameUp(_, _, _)
FrameUp(h, f, n) ==
    IF n = 0 \/ f = 0 THEN f ELSE FrameUp(h, h.fr[f].back, n - 1)

\* PyContextMap._BASEDIST
BASEDIST == 1

\* A plausible slip: the mapping methods are not counted (_BASEDIST = 0 as in
\* PyContextLocal), so the walk starts in the mapping method's own frame.
MapStart_NoBaseDist(h, m) == FrameUp(h, m, 0)

\* Where the walk of an attribute method starts, and where __setattr__
\* registers a layer, when the method was called by the mapping method
\* running in frame m: _BASEDIST frames above it.
MapStart(h, m) == FrameUp(h, m, BASEDIST)

\* m[name] read in frame f.
GetItem(h, f, name) ==
    LET h1 == WithFacade(h, f)
        r == GetAttr(h1, MapStart(h1, FacadeId(h)), name)
    IN IF r = NotBound THEN KeyError ELSE r

\* m[name] = value in frame f: the heap once __setitem__ returned.
SetItem(h, f, name, value) ==
    LET h1 == WithFacade(h, f)
    IN Reclaim(SetAttr(h1, MapStart(h1, FacadeId(h)), name, value), FacadeId(h))

\* Whether del m[name] in frame f raises KeyError.
DelItemRaises(h, f, name) ==
    LET h1 == WithFacade(h, f)
    IN DelAttrRaises(h1, MapStart(h1, FacadeId(h)), name)

\* __delattr__(name) whose walk starts at frame f, where it does not raise;
\* the walk of its inner setattr(self, name, _sentinel) starts at frame g.
DelAttrFrom(h, f, g, name) ==
    LET r == IntrospectRegistry(h, f, name)
    IN IF r.first = r.count
       THEN IF name \in Layer(h, r.frame, r.idx).deleted
            THEN SetAttr(h, g, name, _sentinel)
            ELSE SetAttr(FlagDeleted(h, r.frame, r.idx, name), g, name, _sentinel)
       ELSE FlagDeleted(SetAttr(h, g, name, _sentinel), r.frame, r.idx, name)

\* del m[name] in frame f, where it does not raise: the heap once __delitem__
\* returned.  The inner setattr of __delattr__ is one frame further from the
\* user, so with _BASEDIST its walk starts in the frame of __delitem__.
DelItem(h, f, name) ==
    LET h1 == WithFacade(h, f)
        m == FacadeId(h)
    IN Reclaim(DelAttrFrom(h1, MapStart(h1, m), m, name), m)

\* m[name] = value in the main thread.
MapSet(name, value) ==
    /\ UNCHANGED <<gens, native, nat, ex, classes, cvars, other>>
    /\ InUser(1)
    /\ UNCHANGED <<cur, tstate, loop, tasks>>
    /\ IntrospectRegistry(Heap, cur[1], NoName).found \/ Room(cur[1])
    /\ scopes' = Touch(cur[1], name, value)
    /\ Install(SetItem(Heap, cur[1], name, value))

\* del m[name] in the main thread; where it raises KeyError nothing changes.
MapDel(name) ==
    /\ UNCHANGED <<gens, native, nat, ex, classes, cvars, other>>
    /\ InUser(1)
    /\ IF DelItemRaises(Heap, cur[1], name)
       THEN /\ UNCHANGED <<frames, registry, scopes>>
       ELSE /\ Install(DelItem(Heap, cur[1], name))
            /\ scopes' = Touch(cur[1], name, NotBound)
    /\ UNCHANGED <<cur, tstate, loop, tasks>>

\* A program that uses a PyContextMap through its mapping interface.  Every
\* function assigns and deletes "a"; "b" is the bystander that only the
\* outermost function assigns.
NextMap ==
    \/ \E v \in Values : MapSet("a", v)
    \/ frames[cur[1]].back = 0 /\ MapSet("b", 1)
    \/ MapDel("a")
    \/ CallPlain(1)
    \/ CallScoped(1)
    \/ EnterWith(1)
    \/ ExitWith(1)
    \/ Return(1)

SpecMap == Init /\ [][NextMap]_vars

\* What the attribute read gives, with the mapping's fault in place of the
\* attribute's.
AsItem(r) == IF r = NotBound THEN KeyError ELSE r

\* C29: the mapping interface behaves as the attribute interface over the
\* same engine: in every state m[K] gives the value the attribute read gives
\* (KeyError where that raises AttributeError) and del m[K] fails where the
\* attribute delete fails; m[K] = v and del m[K] leave the layers exactly as
\* the attribute assignment and delete would, shadowing and tombstones
\* included.
C29_MapBehavesAsAttributes ==
    /\ [](InUser(1) =>
            \A k \in Names :
                /\ GetItem(Heap, cur[1], k) = AsItem(GetAttr(Heap, cur[1], k))
                /\ DelItemRaises(Heap, cur[1], k) = DelAttrRaises(Heap, cur[1], k))
    /\ [][\A k \in Names, v \in Values :
            MapSet(k, v) => Heap' = SetAttr(Heap, cur[1], k, v)]_vars
    /\ [][\A k \in Names :
            MapDel(k) => Heap' = IF DelAttrRaises(Heap, cur[1], k) THEN Heap
                                 ELSE DelAttr(Heap, cur[1], k)]_vars

\* The outermost function set m["a"] = 1 and m["b"] = 1, and a decorated
\* call deleted m["a"]: "a" is a missing key in the call and 1 in the
\* outermost frame, "b" is 1 in both.
C29_Witness ==
    /\ InUser(1)
    /\ cur[1] # 1
    /\ GetItem(Heap, cur[1], "a") = KeyError
    /\ DelItemRaises(Heap, cur[1], "a")
    /\ GetItem(Heap, 1, "a") = 1
    /\ GetItem(Heap, cur[1], "b") = 1


\* ------------------------------------- threads on a native namespace
NatUnchanged == UNCHANGED <<registry, loop, tasks, gens, native, ex, classes, cvars, other>>

\* What thread t reads for every name of the native namespace.
NatVisible(n, t) == [k \in Names |-> NatGetAttr(n, t, k)]

\* The main thread starts thread u, which begins in an empty context.
NatStartThread(u) ==
    /\ InUser(1)
    /\ tstate[u] = "new"
    /\ LET c == NewId({})
       IN /\ frames' = DictSet(frames, c, NewFrame(0, "user"))
          /\ cur' = [cur EXCEPT ![u] = c]
    /\ tstate' = [tstate EXCEPT ![u] = "run"]
    /\ nat' = [nat EXCEPT !.ctx[u] = <<Unbound>>]
    /\ UNCHANGED scopes
    /\ NatUnchanged

\* ctx.a = value in thread t.
NatThreadSet(t, value) ==
    /\ InUser(t)
    /\ nat' = NatSetAttr(nat, t, "a", value)
    /\ scopes' = IF frames[cur[t]].open > 0
                 THEN [scopes EXCEPT ![cur[t]][Len(scopes[cur[t]])].mine = DictSet(@, "a", value)]
                 ELSE scopes
    /\ UNCHANGED <<frames, cur, tstate>>
    /\ NatUnchanged

\* with ctx: in thread t.
NatThreadEnter(t) ==
    /\ InUser(t)
    /\ frames[cur[t]].open < MaxLayers
    /\ nat' = NatEnter(nat, t)
    /\ frames' = [frames EXCEPT ![cur[t]].open = @ + 1]
    /\ scopes' = PushScope(scopes, cur[t], NewScope(NatVisible(nat, t), FALSE))
    /\ UNCHANGED <<cur, tstate>>
    /\ NatUnchanged

\* The end of a with block in thread t.
NatThreadExit(t) ==
    /\ InUser(t)
    /\ frames[cur[t]].open > 0
    /\ nat' = NatExit(nat, t)
    /\ frames' = [frames EXCEPT ![cur[t]].open = @ - 1]
    /\ scopes' = PopScope(scopes, cur[t])
    /\ UNCHANGED <<cur, tstate>>
    /\ NatUnchanged

\* The target function of thread u returns, every with block left.
NatThreadFinish(u) ==
    /\ u # 1
    /\ InUser(u)
    /\ frames[cur[u]].open = 0
    /\ frames' = DictDel(frames, cur[u])
    /\ scopes' = DictDel(scopes, cur[u])
    /\ cur' = [cur EXCEPT ![u] = 0]
    /\ tstate' = [tstate EXCEPT ![u] = "done"]
    /\ nat' = [nat EXCEPT !.ctx[u] = <<>>]
    /\ NatUnchanged

NextNativeThreads ==
    \/ \E u \in Threads : NatStartThread(u)
    \/ \E t \in Threads, v \in Values : NatThreadSet(t, v)
    \/ \E t \in Threads : NatThreadEnter(t)
    \/ \E t \in Threads : NatThreadExit(t)
    \/ \E u \in Threads : NatThreadFinish(u)

SpecNativeThreads == Init /\ [][NextNativeThreads]_vars

\* The with block thread t is in, innermost.
InnerBlock(t) == scopes[cur[t]][Len(scopes[cur[t]])]

\* No thread is inside a with block, and every started thread finished.
AllLeft ==
    /\ frames[cur[1]].open = 0
    /\ \A u \in Threads \ {1} : tstate[u] # "run"

ClassesUnchanged ==
    UNCHANGED <<frames, registry, cur, tstate, loop, tasks, gens, native, nat, ex, cvars,
                other, scopes>>

\* cls(backend=backend) somewhere in the program.
Construct(cls, backend) ==
    /\ Len(classes.made) < MaxMade
    /\ classes' = [classes EXCEPT !.made =
            Append(@, [cls |-> cls, backend |-> backend,
                       result |-> ConstructResult(classes, cls, backend)])]
    /\ ClassesUnchanged

NextClasses == \E cls \in ClassNames, backend \in Backends : Construct(cls, backend)

SpecClasses == Init /\ [][NextClasses]_vars

\* The engine the two interfaces are meant to give for a backend.
Engine(facade, backend) ==
    IF facade = "ContextLocal"
    THEN (IF backend = "python" THEN "PyContextLocal" ELSE "NativeContextLocal")
    ELSE (IF backend = "python" THEN "PyContextMap" ELSE "NativeContextMap")

\* C31: every construction with backend "python" or "native" yields an
\* instance of the matching engine of the interface used, the generic
\* constructor without a backend yields the native engine, and an engine class
\* constructed directly yields an instance of itself.
C31_BackendSelectsEngine ==
    \A i \in 1..Len(classes.made) :
        LET m == classes.made[i]
        IN /\ m.cls \in {"ContextLocal", "ContextMap"} /\ m.backend \in {"python", "native"}
                => m.result = Engine(m.cls, m.backend)
           /\ m.cls \in {"ContextLocal", "ContextMap"} /\ m.backend = "None"
                => m.result = Engine(m.cls, "native")
           /\ m.cls \notin {"ContextLocal", "ContextMap"} /\ m.backend = "None"
                => m.result = m.cls


\* ----------------------------------------------------------------- faults
\* Thread t is unwinding: an exception was raised and not yet caught.
Faulted(t) == tstate[t] = "fault" /\ cur[t] # 0

\* Whether __exit__ ends the exception: it returns None.
ExitSuppresses == FALSE

\* The wrapper's finally clause when the call raised: result is still
\* _sentinel, so only the entry of the wrapper's frame is deleted.
WrapperFinallyRaised(h, w) == WrapperFinally(h, w)

\* The running function raises an exception.
Raise(t) ==
    /\ UNCHANGED <<gens, native, nat, ex, classes, cvars, other>>
    /\ InUser(t)
    /\ tstate' = [tstate EXCEPT ![t] = "fault"]
    /\ UNCHANGED <<frames, registry, cur, loop, tasks, scopes>>

\* The exception leaves the innermost with block of the running function:
\* __exit__ pops the layer.
UnwindWith(t) ==
    /\ UNCHANGED <<gens, native, nat, ex, classes, cvars, other>>
    /\ Faulted(t)
    /\ frames[cur[t]].open > 0
    /\ CanPop(Heap, cur[t])
    /\ LET h1 == PopContext(Heap, cur[t])
       IN Install([h1 EXCEPT !.fr[cur[t]].open = @ - 1])
    /\ scopes' = PopScope(scopes, cur[t])
    /\ tstate' = [tstate EXCEPT ![t] = IF ExitSuppresses THEN "run" ELSE "fault"]
    /\ UNCHANGED <<cur, loop, tasks>>

\* The frames on the stack of a thread, from frame f outwards.
RECURSIVE Chain(_)
Chain(f) == IF f = 0 THEN {} ELSE {f} \cup Chain(frames[f].back)

\* The exception leaves the running function.  Through the decorator's
\* wrapper it runs the wrapper's finally clause, through _run it leaves the
\* with block of _run; both pass it on to their own caller.  The frames it
\* has left stay alive: the traceback of the exception refers to them.
UnwindFrame(t) ==
    /\ UNCHANGED <<gens, native, nat, ex, classes, cvars, other>>
    /\ Faulted(t)
    /\ LET c == cur[t]
           b == frames[c].back
       IN /\ frames[c].kind = "user"
          /\ frames[c].open = 0
          /\ b # 0
          /\ IF frames[b].kind = "wrapper"
             THEN /\ Install(WrapperFinallyRaised(Heap, b))
                  /\ cur' = [cur EXCEPT ![t] = frames[b].back]
                  /\ scopes' = DictDel(DictDel(scopes, c), b)
                  /\ UNCHANGED tstate
             ELSE IF frames[b].kind = "_run"
             THEN /\ CanPop(Heap, b)
                  /\ Install(PopContext(Heap, b))
                  /\ cur' = [cur EXCEPT ![t] = frames[b].back]
                  /\ scopes' = DictDel(DictDel(scopes, c), b)
                  /\ tstate' = [tstate EXCEPT ![t] = IF ExitSuppresses THEN "run" ELSE "fault"]
             ELSE /\ UNCHANGED <<frames, registry>>
                  /\ cur' = [cur EXCEPT ![t] = b]
                  /\ scopes' = DictDel(scopes, c)
                  /\ UNCHANGED tstate
    /\ UNCHANGED <<loop, tasks>>

\* An except clause of the running function catches the exception and ends:
\* the exception and its traceback are released, and with them the frames
\* that are on no thread's stack.
Catch(t) ==
    /\ UNCHANGED <<gens, native, nat, ex, classes, cvars>>
    /\ Faulted(t)
    /\ tstate' = [tstate EXCEPT ![t] = "run"]
    /\ LET live == UNION {Chain(cur[u]) : u \in Threads}
           dead == DOMAIN frames \ live
       IN /\ frames' = [f \in live |-> frames[f]]
          /\ registry' = [f \in DOMAIN registry \ dead |-> registry[f]]
          /\ scopes' = [f \in DOMAIN scopes \ dead |-> scopes[f]]
          /\ other' = Forget(other, dead)
    /\ UNCHANGED <<cur, loop, tasks>>

\* One thread, every scope construct, every function may raise.
NextFault ==
    \/ \E v \in Values : Set(1, "a", v)
    \/ Del(1, "a")
    \/ CallPlain(1)
    \/ CallScoped(1)
    \/ RunIsolated(1)
    \/ EnterWith(1)
    \/ ExitWith(1)
    \/ Return(1)
    \/ Raise(1)
    \/ UnwindWith(1)
    \/ UnwindFrame(1)
    \/ Catch(1)

SpecFault == Init /\ [][NextFault]_vars

\* The exception leaves the scope thread t is in.
FaultScopeExit(t) ==
    \/ UnwindWith(t)
    \/ /\ Faulted(t)
       /\ frames[cur[t]].back # 0
       /\ frames[frames[cur[t]].back].kind \in {"wrapper", "_run"}
       /\ UnwindFrame(t)

\* C32: when the body of a nested scope (decorated call, with block, _run)
\* raises, the scope's layer is removed, the registry keeps no entry for the
\* frames the exception has left (the scope's own and the function's), the
\* enclosing code reads for every name what it read right before the scope
\* was entered, and the exception goes on to the caller.
C32_FaultLeavesScopeClean ==
    [][\A t \in Threads :
          FaultScopeExit(t) =>
              /\ Visible(Heap, cur[t])' = CurScope(cur[t]).view
              /\ LayersAlong(cur[t])' = LayersAlong(cur[t]) - 1
              /\ DOMAIN registry' \subseteq Chain(cur[t])'
              /\ tstate'[t] = "fault"]_vars


\* --------------------------- threads inside NativeContextLocal.__setattr__
VarsUnchanged ==
    UNCHANGED <<frames, registry, cur, tstate, loop, tasks, gens, native, nat, ex, classes,
                other, scopes>>

\* self._et_registry.get(name): the ContextVar of the name (0: none).
VarOf(cv, name) ==
    IF \E i \in 1..Len(cv.reg) : cv.reg[i].name = name
    THEN cv.reg[CHOOSE i \in 1..Len(cv.reg) : cv.reg[i].name = name].var
    ELSE 0

\* self._et_registry[name] = var: a new key goes to the end, a key that is
\* there keeps its place.
RegStore(reg, name, var) ==
    IF \E i \in 1..Len(reg) : reg[i].name = name
    THEN [i \in 1..Len(reg) |-> IF reg[i].name = name THEN [name |-> name, var |-> var]
                                 ELSE reg[i]]
    ELSE Append(reg, [name |-> name, var |-> var])

\* NativeContextLocal.__getattr__(name) in thread t.
VarsGetAttr(cv, t, name) ==
    LET var == VarOf(cv, name)
    IN IF var = 0 THEN NotBound
       ELSE IF cv.val[t][var] = _sentinel THEN NotBound
       ELSE cv.val[t][var]

\* Threads that found no ContextVar and have not stored theirs yet.
Creating == {t \in Threads : cvars.pc[t] = "looked" /\ cvars.loc[t].var = 0}

\* ctx.<name> = value in thread t, first statement of __setattr__:
\* var = self._et_registry.get(name, _sentinel)
VSetLookup(t, name, value) ==
    /\ cvars.pc[t] = "idle"
    /\ VarOf(cvars, name) = 0 => cvars.nvars + Cardinality(Creating) < MaxVars
    /\ cvars' = [cvars EXCEPT !.pc[t] = "looked",
                              !.loc[t] = [name |-> name, value |-> value,
                                          var |-> VarOf(cvars, name)]]
    /\ VarsUnchanged

\* The second statement:
\* if var is _sentinel: var = self._et_registry[name] = ContextVar(name)
VSetStore(t) ==
    /\ cvars.pc[t] = "looked"
    /\ IF cvars.loc[t].var = 0
       THEN LET new == cvars.nvars + 1
            IN cvars' = [cvars EXCEPT !.pc[t] = "stored",
                                      !.nvars = new,
                                      !.reg = RegStore(@, cvars.loc[t].name, new),
                                      !.loc[t].var = new]
       ELSE cvars' = [cvars EXCEPT !.pc[t] = "stored"]
    /\ VarsUnchanged

\* The last statement of __setattr__: var.set(value)
VSetValue(t) ==
    /\ cvars.pc[t] = "stored"
    /\ cvars' = [cvars EXCEPT !.pc[t] = "idle",
                              !.val[t][cvars.loc[t].var] = cvars.loc[t].value,
                              !.last[t][cvars.loc[t].name] = cvars.loc[t].value]
    /\ VarsUnchanged

NextVars ==
    \/ \E t \in Threads, name \in Names, v \in Values : VSetLookup(t, name, v)
    \/ \E t \in Threads : VSetStore(t)
    \/ \E t \in Threads : VSetValue(t)

SpecVars == Init /\ [][NextVars]_vars

\* C33: under every interleaving, a thread that has assigned v to K reads v
\* for K, also when another thread makes its own first assignment to K at the
\* same time.
C33_SetThenGetUnderRace ==
    \A t \in Threads, k \in Names :
        cvars.pc[t] = "idle" /\ cvars.last[t][k] # NotBound
            => VarsGetAttr(cvars, t, k) = cvars.last[t][k]


\* -------------------------------------------------- calls without a layer
\* Thread t returns from an undecorated function to its caller.
PlainReturn(t) ==
    /\ InUser(t)
    /\ frames[cur[t]].back # 0
    /\ frames[frames[cur[t]].back].kind = "user"
    /\ Return(t)

\* C34: what a function called without a layer of its own has bound stays
\* visible to its caller: the caller reads, right after the return, what the
\* function read right before it, also when the function's assignment was the
\* first one anywhere and made the implicit layer.
C34_PlainCallWritesReachCaller ==
    [][\A t \in Threads :
          PlainReturn(t) => Visible(Heap, cur[t])' = Visible(Heap, cur[t])]_vars


\* ------------------------------------------------ no layer on any ancestor
\* A plausible slip: __getattr__ without its except clause, so that the
\* ContextError of the walk reaches the caller.
GetAttrFault_Uncaught(h, f, name) ==
    IF ~IntrospectRegistry(h, f, name).found THEN "ContextError"
    ELSE IF GetAttr(h, f, name) = NotBound THEN "AttributeError"
    ELSE "none"

\* What __getattr__(name) called from frame f raises: the ContextError of the
\* walk and the KeyError of a tombstone both become AttributeError.
GetAttrFault(h, f, name) ==
    IF ~IntrospectRegistry(h, f, name).found THEN "AttributeError"
    ELSE IF Layer(h, IntrospectRegistry(h, f, name).frame,
                  IntrospectRegistry(h, f, name).idx).vals[name] = _sentinel
    THEN "AttributeError"
    ELSE "none"

\* What __delattr__(name) called from frame f raises.
DelAttrFault(h, f, name) ==
    IF ~IntrospectRegistry(h, f, name).found THEN "AttributeError"
    ELSE IF DelAttrRaises(h, f, name) THEN "AttributeError"
    ELSE "none"

\* No frame from f outwards has a registered layer.
NoLayer(h, f) == ~IntrospectRegistry(h, f, NoName).found

\* C35: with no layer on any ancestor, an assignment makes exactly one layer,
\* on the frame that assigns, holding just the assigned name, and the name
\* then reads as assigned; a read and a delete raise AttributeError and the
\* enumeration is empty.  No operation ever surfaces the ContextError of the
\* walk.
C35_NoScopeIsNeverSurfaced ==
    /\ [][\A t \in Threads, k \in Names, v \in Values :
            (Set(t, k, v) /\ NoLayer(Heap, cur[t])) =>
                /\ DOMAIN registry' = DOMAIN registry \cup {cur[t]}
                /\ Len(registry'[cur[t]]) = 1
                /\ \A f \in DOMAIN registry : registry'[f] = registry[f] \/ f = cur[t]
                /\ Len(frames'[cur[t]].ctxs) = Len(frames[cur[t]].ctxs) + 1
                /\ Layer(Heap', cur[t], registry'[cur[t]][1]).vals = [x \in {k} |-> v]
                /\ GetAttr(Heap', cur[t], k) = v]_vars
    /\ [](\A t \in Threads : InUser(t) =>
            /\ \A k \in Names :
                  /\ GetAttrFault(Heap, cur[t], k) \in {"none", "AttributeError"}
                  /\ DelAttrFault(Heap, cur[t], k) \in {"none", "AttributeError"}
            /\ NoLayer(Heap, cur[t]) =>
                  /\ \A k \in Names :
                        /\ GetAttrFault(Heap, cur[t], k) = "AttributeError"
                        /\ DelAttrFault(Heap, cur[t], k) = "AttributeError"
                  /\ Dir(Heap, cur[t]) = {})

\* A function called with no layer anywhere has assigned "a": the one layer
\* there is is on its own frame, its caller has none.
C35_Witness ==
    /\ InUser(1)
    /\ frames[cur[1]].back = 1
    /\ frames[cur[1]].kind = "user"
    /\ DOMAIN registry = {cur[1]}
    /\ registry[cur[1]] = <<0>>
    /\ GetAttr(Heap, cur[1], "a") = 2
    /\ NoLayer(Heap, 1)


\* --------------------------------------------- an exit without an enter
\* ctx.__exit__(...) called in a function that is in no with block of the
\* namespace: _pop_context pops whatever the row of the frame holds last, and
\* raises KeyError (no row) or IndexError (empty row) where there is nothing.
StrayExit(t) ==
    /\ UNCHANGED <<gens, native, nat, ex, classes, cvars, other>>
    /\ InUser(t)
    /\ frames[cur[t]].open = 0
    /\ IF CanPop(Heap, cur[t])
       THEN /\ Install(PopContext(Heap, cur[t]))
            /\ scopes' = PopScope(scopes, cur[t])
            /\ UNCHANGED tstate
       ELSE /\ UNCHANGED <<frames, registry, scopes>>
            /\ tstate' = [tstate EXCEPT ![t] = "fault"]
    /\ UNCHANGED <<cur, loop, tasks>>

\* One thread whose functions may call __exit__ out of place.
NextStray ==
    \/ \E v \in Values : Set(1, "a", v)
    \/ Del(1, "a")
    \/ CallPlain(1)
    \/ CallScoped(1)
    \/ EnterWith(1)
    \/ ExitWith(1)
    \/ Return(1)
    \/ StrayExit(1)
    \/ Catch(1)

SpecStray == Init /\ [][NextStray]_vars

\* C36: an exit with no matching enter in the running function raises an
\* error and removes no layer: the registry and the layers are as before.
C36_StrayExitRaises ==
    [][\A t \in Threads :
          StrayExit(t) =>
              /\ tstate'[t] = "fault"
              /\ registry' = registry
              /\ frames' = frames]_vars

\* ------------------------------------------- the wrapper's finally, by step
\* PyContextLocal holds no lock, and the interpreter may switch threads
\* between any two statements of `wrapper`.  The finally clause of a call that
\* returned a generator is two statements on the registry: `del
\* self._registry[f_id]` and `self._register_context(frame)` for gi_frame.
\* A thread between the two is in state "finally".
InFinally(t) == tstate[t] = "finally"

\* The wrapper frame of the call thread t is finishing.
WrapperOf(t) ==
    CHOOSE f \in DOMAIN frames : frames[f].kind = "wrapper" /\ frames[f].back = cur[t]

\* Thread t calls a decorated generator function: the wrapper registers its
\* own frame, the call returns the generator g, and the finally clause deletes
\* the wrapper's row.
FinallyDelete(t, g) ==
    /\ InUser(t)
    /\ gens[g].state = "none"
    /\ \A u \in Threads : ~InFinally(u)
    /\ LET c == NewId({})
           w == NewId({c})
           h0 == [fr |-> DictSet(DictSet(frames, c, NewFrame(0, "gen")),
                                 w, NewFrame(cur[t], "wrapper")),
                  reg |-> registry]
       IN Install(WrapperFinally(RegisterContext(h0, w), w))
    /\ gens' = [gens EXCEPT ![g] = [state |-> "transfer", frame |-> NewId({}),
                                    scoped |-> TRUE, steps |-> 0, dview |-> Unbound]]
    /\ tstate' = [tstate EXCEPT ![t] = "finally"]
    /\ UNCHANGED <<cur, loop, tasks, native, nat, ex, classes, cvars, other, scopes>>

\* The finally clause goes on: a layer is registered on the generator's
\* frame, and the wrapper returns the generator.
FinallyRegister(t, g) ==
    /\ InFinally(t)
    /\ gens[g].state = "transfer"
    /\ Install(Reclaim(RegisterContext(Heap, gens[g].frame), WrapperOf(t)))
    /\ scopes' = PushScope(scopes, gens[g].frame, NewScope(Visible(Heap, cur[t]), FALSE))
    /\ gens' = [gens EXCEPT ![g].state = "suspended"]
    /\ tstate' = [tstate EXCEPT ![t] = "run"]
    /\ UNCHANGED <<cur, loop, tasks, native, nat, ex, classes, cvars, other>>

\* Two threads: each may assign, open and close blocks, and call a decorated
\* generator function.
NextTransfer ==
    \/ \E t \in Threads : Set(t, "a", t)
    \/ \E t \in Threads : EnterWith(t)
    \/ \E t \in Threads : ExitWith(t)
    \/ \E t, u \in Threads : StartThread(t, u)
    \/ \E u \in Threads : ThreadExit(u)
    \/ \E t \in Threads, g \in GenIds : FinallyDelete(t, g)
    \/ \E t \in Threads, g \in GenIds : FinallyRegister(t, g)

SpecTransfer == Init /\ [][NextTransfer]_vars

\* The two statements together are the call of CallSuspendable.
TransferIsCallSuspendable ==
    [][\A t \in Threads, g \in GenIds :
          FinallyRegister(t, g) =>
              LET c == gens[g].frame
                  w == WrapperOf(t)
                  h == [fr |-> [f \in DOMAIN frames \ {c, w} |-> frames[f]], reg |-> registry]
              IN Heap' = CallSuspendable(h, cur[t], c, w)]_vars

\* C37: while a thread is between deleting the row of its scoped call and
\* registering the layer of the generator the call returned, the registry is
\* changed by no other thread: the only step that changes it is that
\* thread's own registration.
C37_TransferIsAtomic ==
    [][(\E t \in Threads : InFinally(t)) /\ registry' # registry
          => \E t \in Threads, g \in GenIds : FinallyRegister(t, g)]_vars

\* C38: dir(ctx) never raises: in every running thread it returns exactly the
\* names the thread can read, leaving out a name that only another thread or
\* an already closed block has bound.
C38_DirNeverFails ==
    \A t \in Threads :
        InUser(t) =>
            /\ NatDir(nat, t) # DirRaises
            /\ NatDir(nat, t) = {k \in Names : NatVisible(nat, t)[k] # NotBound}

\* C39: `with ctx:` on the native engine is refused: entering raises and the
\* engine is left as it was, with no context entered, no entry pushed on
\* _et_stack and every value as before.
C39_NativeEnterIsRefused ==
    [][\A t \in Threads :
          NatThreadEnter(t) =>
              /\ nat'.ctx = nat.ctx
              /\ nat'.stack = nat.stack
              /\ NatVisible(nat, t)' = NatVisible(nat, t)]_vars

\* ------------------------------------------------ the order of enumeration
\* NativeContextLocal.__dir__() in thread t: the keys of _et_registry in the
\* order of the dict, which is the order of first assignment, those left out
\* whose variable holds the marker of a deleted attribute.  value.get() raises
\* LookupError for a variable without a value in the thread's context.
VarsDirRaises(cv, t) ==
    \E i \in 1..Len(cv.reg) : cv.val[t][cv.reg[i].var] = NotBound

VarsDir(cv, t) ==
    LET kept == SelectSeq(cv.reg, LAMBDA e : cv.val[t][e.var] # _sentinel)
    IN [i \in 1..Len(kept) |-> kept[i].name]

\* The same entries of a registry, in every order.
Reorderings(reg) ==
    {[i \in 1..Len(reg) |-> reg[p[i]]] :
        p \in {q \in [1..Len(reg) -> 1..Len(reg)] :
                  \A i, j \in 1..Len(reg) : q[i] = q[j] => i = j}}

\* C40: the list __dir__() returns depends on the names a thread can read
\* and on nothing else: with the same variables and values, but the names
\* first assigned in another order, it is the same list in the same order.
C40_DirOrderIsDeterministic ==
    \A t \in Threads :
        cvars.pc[t] = "idle" /\ ~VarsDirRaises(cvars, t) =>
            \A reg \in Reorderings(cvars.reg) :
                VarsDir([cvars EXCEPT !.reg = reg], t) = VarsDir(cvars, t)

=========================================================================
